---------------------------- MODULE Spec2Model ----------------------------
(***************************************************************************)
(* Model of the IFC -> glTF/GLB converter SimpleIFC2GLTF                   *)
(* (_test/LoadFileExample/src/ifc2gltf.cpp).                               *)
(*                                                                         *)
(* The shape-data tree handed over by the geometry converter is the input: *)
(* it is drawn in Init.  Convert() is followed step by step: load,         *)
(* geometry conversion, extraction (one top-level entity per step), and    *)
(* the writing of the output files.  Coordinates are integer-valued        *)
(* floats, so that float arithmetic, float printing and the IEEE-754 byte  *)
(* image of a float are all exact.                                         *)
(***************************************************************************)
EXTENDS Integers, Sequences, FiniteSets, TLC

VARIABLES
    mapEntities,   \* m_geometryConverter->getShapeInputData(), in iteration order
    m_args,        \* CommandLineArgs: scale, outputGlb, outputFile
    pc,            \* position inside Convert() / WriteGlbFile()
    nextEntity,    \* position of the loop of ExtractGeometryData
    rootChildren,  \* m_rootNode->children
    m_materials,   \* the material registry
    gltf,          \* the JSON document emitted (value and text), or NoFile
    binFile,       \* the bytes of the sidecar .bin file, or NoFile
    glbFile,       \* the write calls made on the .glb file, or NoFile
    jsonString,    \* local of WriteGlbFile: the JSON text and its length
    binaryData,    \* local of WriteGlbFile: the binary blob and its length
    geomData,      \* a GeometryData under construction (ExtractMeshSet calls)
    result,        \* what Convert() returned, or "none"
    argv,          \* the command line of main(), argv[1..]
    exitCode,      \* what main() returned, or "none"
    log,           \* the [ERROR] and [WARNING] lines printed, oldest first
    previous       \* the outcome of an earlier Convert() on this object, or NoFile

vars == <<mapEntities, m_args, pc, nextEntity, rootChildren, m_materials,
          gltf, binFile, glbFile, jsonString, binaryData, geomData, result,
          argv, exitCode, log, previous>>

-----------------------------------------------------------------------------
(* Bounds of the model *)

MaxEntities == 2     \* top-level entities in a scene
MaxFaceLen == 5      \* longest vertex loop of a generated face
MaxTriangles == 2    \* triangles a record may hold before a further ExtractMeshSet call
MaxJsonLen == 7      \* characters added to the shortest JSON text handed to the GLB writers
MaxBinLen == 5       \* longest small blob handed directly to the GLB writers
HugeTriangles == 51130564  \* triangles of a scene whose blob (84 bytes each) passes 2^32 bytes

\* A null pointer, and a file that was not created; records, as the values they stand in for.
NullPtr == [null |-> TRUE]
NoFile == [exists |-> FALSE]

-----------------------------------------------------------------------------
(* size_t values.  TLC's integers are 32 bits wide, a size_t is 64 and the *)
(* GLB length fields are uint32, so a byte count n is held as the pair     *)
(* [w, b] with n = 4*w + b and 0 <= b < 4.                                 *)

SizeOf(n) == [w |-> n \div 4, b |-> n % 4]

SzAdd(x, y) == [w |-> x.w + y.w + ((x.b + y.b) \div 4), b |-> (x.b + y.b) % 4]

SzLess(x, y) == x.w < y.w \/ (x.w = y.w /\ x.b < y.b)

\* y - x, for x <= y
SzSub(y, x) ==
    IF y.b >= x.b THEN [w |-> y.w - x.w, b |-> y.b - x.b]
    ELSE [w |-> y.w - x.w - 1, b |-> y.b + 4 - x.b]

TwoPow30 == 1073741824

\* static_cast<uint32_t>(x): x mod 2^32
U32(x) == [w |-> x.w % TwoPow30, b |-> x.b]

\* (x + 3) & ~3
AlignUp4(x) == [w |-> SzAdd(x, SizeOf(3)).w, b |-> 0]

-----------------------------------------------------------------------------
(* Bytes *)

RECURSIVE Pow2(_)
Pow2(k) == IF k = 0 THEN 1 ELSE 2 * Pow2(k - 1)

RECURSIVE Log2Floor(_)
Log2Floor(n) == IF n <= 1 THEN 0 ELSE 1 + Log2Floor(n \div 2)

\* The four bytes of a float in memory (IEEE-754 binary32, little-endian),
\* for an integer-valued float of magnitude below 2^24.
F32Bytes(v) ==
    IF v = 0 THEN <<0, 0, 0, 0>>
    ELSE LET a == IF v < 0 THEN -v ELSE v
             e == Log2Floor(a)
             E == e + 127
             M == a * Pow2(23 - e) - Pow2(23)
             s == IF v < 0 THEN 1 ELSE 0
         IN  <<M % 256, (M \div 256) % 256, (E % 2) * 128 + (M \div 65536),
               s * 128 + (E \div 2)>>

\* The four bytes of a uint32_t in memory (little-endian).
U32Bytes(n) ==
    <<n % 256, (n \div 256) % 256, (n \div 65536) % 256, (n \div 16777216) % 256>>

RECURSIVE FloatArrayBytes(_)
FloatArrayBytes(a) ==
    IF a = <<>> THEN <<>> ELSE F32Bytes(Head(a)) \o FloatArrayBytes(Tail(a))

RECURSIVE IndexArrayBytes(_)
IndexArrayBytes(a) ==
    IF a = <<>> THEN <<>> ELSE U32Bytes(Head(a)) \o IndexArrayBytes(Tail(a))

-----------------------------------------------------------------------------
(* GeometryData *)

EmptyGeometryData ==
    [vertices |-> <<>>, normals |-> <<>>, texCoords |-> <<>>, indices |-> <<>>,
     materialId |-> "", minBounds |-> <<0, 0, 0>>, maxBounds |-> <<0, 0, 0>>]

Min(a, b) == IF a < b THEN a ELSE b
Max(a, b) == IF a > b THEN a ELSE b

RECURSIVE BoundsFrom(_, _, _, _)
BoundsFrom(vertices, i, mn, mx) ==
    IF i > Len(vertices) THEN [mn |-> mn, mx |-> mx]
    ELSE BoundsFrom(vertices, i + 3,
                    [j \in 1..3 |-> Min(mn[j], vertices[i + j - 1])],
                    [j \in 1..3 |-> Max(mx[j], vertices[i + j - 1])])

CalculateBounds(g) ==
    IF g.vertices = <<>> THEN g
    ELSE LET first == <<g.vertices[1], g.vertices[2], g.vertices[3]>>
             bb == BoundsFrom(g.vertices, 4, first, first)
         IN  [g EXCEPT !.minBounds = bb.mn, !.maxBounds = bb.mx]

ApplyScale(g, scale) ==
    IF scale # 1
    THEN [g EXCEPT !.vertices = [i \in 1..Len(g.vertices) |-> g.vertices[i] * scale]]
    ELSE g

-----------------------------------------------------------------------------
(* Triangulation *)

\* localTransform * v : the affine part of the 4x4 matrix applied to v
MatVec(M, v) ==
    [r \in 1..3 |-> M[r][1] * v[1] + M[r][2] * v[2] + M[r][3] * v[3] + M[r][4]]

\* a slip: baseIndex counts floats, not vertices
AppendTriangleFloatIndex(g, T, loop, i, N) ==
    LET p0 == MatVec(T, loop[1])
        p1 == MatVec(T, loop[i + 1])
        p2 == MatVec(T, loop[i + 2])
        baseIndex == Len(g.vertices)
    IN  [g EXCEPT
           !.vertices = @ \o p0 \o p1 \o p2,
           !.normals = @ \o N \o N \o N,
           !.texCoords = @ \o <<0, 0>> \o <<0, 0>> \o <<0, 0>>,
           !.indices = @ \o <<baseIndex, baseIndex + 1, baseIndex + 2>>]

\* a slip: a strip (vi-1, vi, vi+1) in place of the fan
AppendTriangleStrip(g, T, loop, i, N) ==
    LET p0 == MatVec(T, loop[i])
        p1 == MatVec(T, loop[i + 1])
        p2 == MatVec(T, loop[i + 2])
        baseIndex == Len(g.vertices) \div 3
    IN  [g EXCEPT
           !.vertices = @ \o p0 \o p1 \o p2,
           !.normals = @ \o N \o N \o N,
           !.texCoords = @ \o <<0, 0>> \o <<0, 0>> \o <<0, 0>>,
           !.indices = @ \o <<baseIndex, baseIndex + 1, baseIndex + 2>>]

\* One pass of the body of the triangulation loop: triangle (v0, vi, vi+1).
AppendTriangle(g, T, loop, i, N) ==
    LET p0 == MatVec(T, loop[1])
        p1 == MatVec(T, loop[i + 1])
        p2 == MatVec(T, loop[i + 2])
        baseIndex == Len(g.vertices) \div 3
    IN  [g EXCEPT
           !.vertices = @ \o p0 \o p1 \o p2,
           !.normals = @ \o N \o N \o N,
           !.texCoords = @ \o <<0, 0>> \o <<0, 0>> \o <<0, 0>>,
           !.indices = @ \o <<baseIndex, baseIndex + 1, baseIndex + 2>>]

\* for (i = 1; i < faceVertices.size() - 1; ++i)
RECURSIVE TriangulateFace(_, _, _, _)
TriangulateFace(face, T, g, i) ==
    IF i < Len(face.loop) - 1
    THEN TriangulateFace(face, T, AppendTriangle(g, T, face.loop, i, face.N), i + 1)
    ELSE g

ExtractFace(face, T, g) ==
    IF face = NullPtr \/ face.n_edges < 3 THEN g
    ELSE TriangulateFace(face, T, g, 1)

RECURSIVE ExtractFaces(_, _, _)
ExtractFaces(faces, T, g) ==
    IF faces = <<>> THEN g
    ELSE ExtractFaces(Tail(faces), T, ExtractFace(Head(faces), T, g))

RECURSIVE ExtractMeshes(_, _, _)
ExtractMeshes(meshes, T, g) ==
    IF meshes = <<>> THEN g
    ELSE ExtractMeshes(Tail(meshes), T,
                       IF Head(meshes) = NullPtr THEN g
                       ELSE ExtractFaces(Head(meshes).faces, T, g))

ExtractMeshSet(meshset, T, g) ==
    IF meshset = NullPtr THEN g ELSE ExtractMeshes(meshset.meshes, T, g)

RECURSIVE ExtractMeshSets(_, _, _)
ExtractMeshSets(meshsets, T, g) ==
    IF meshsets = <<>> THEN g
    ELSE ExtractMeshSets(Tail(meshsets), T, ExtractMeshSet(Head(meshsets), T, g))

-----------------------------------------------------------------------------
(* Material registry.  A colour component c stands for the float c / 10.   *)

DefaultMaterial ==
    [name |-> "Default", baseColorFactor |-> <<8, 8, 8, 10>>,
     metallicFactor |-> 0, roughnessFactor |-> 9]

\* a slip: the record is stored under its name, not under the key looked up
CreateDefaultMaterialByName(materials) == (DefaultMaterial.name :> DefaultMaterial) @@ materials

CreateDefaultMaterial(materials) == ("default" :> DefaultMaterial) @@ materials

RECURSIVE FirstUsable(_)
FirstUsable(appearances) ==
    IF appearances = <<>> THEN NullPtr
    ELSE IF Head(appearances) # NullPtr /\ Len(Head(appearances).m_color_rgba) >= 4
         THEN Head(appearances)
         ELSE FirstUsable(Tail(appearances))

\* a slip: the number in the name is the registry size, without the + 1
ExtractMaterialFromItemFromZero(item, materials) ==
    LET app == FirstUsable(item.m_vec_item_appearances)
    IN  IF app # NullPtr
        THEN LET name == "Material_" \o ToString(Cardinality(DOMAIN materials))
                 material == [name |-> name,
                              baseColorFactor |-> SubSeq(app.m_color_rgba, 1, 4),
                              metallicFactor |-> 0, roughnessFactor |-> 9]
             IN  [id |-> name, materials |-> (name :> material) @@ materials]
        ELSE [id |-> "default",
              materials |-> IF "default" \in DOMAIN materials THEN materials
                            ELSE CreateDefaultMaterial(materials)]

\* Returns the material id and the registry after the call.
ExtractMaterialFromItem(item, materials) ==
    LET app == FirstUsable(item.m_vec_item_appearances)
    IN  IF app # NullPtr
        THEN LET name == "Material_" \o ToString(Cardinality(DOMAIN materials) + 1)
                 material == [name |-> name,
                              baseColorFactor |-> SubSeq(app.m_color_rgba, 1, 4),
                              metallicFactor |-> 0, roughnessFactor |-> 9]
             IN  [id |-> name, materials |-> (name :> material) @@ materials]
        ELSE [id |-> "default",
              materials |-> IF "default" \in DOMAIN materials THEN materials
                            ELSE CreateDefaultMaterial(materials)]

-----------------------------------------------------------------------------------------------------------------------------------------------------
(* Logging.  Only the lines of LogError and LogWarning, and the lines     *)
(* main() writes to std::cerr, are kept: the tag of the line and its      *)
(* message, without the text of e.what().                                  *)

LogError(lines, message) == Append(lines, [tag |-> "[ERROR]", message |-> message])

LogWarning(lines, logLevel, message) ==
    IF logLevel >= 1 THEN Append(lines, [tag |-> "[WARNING]", message |-> message])
    ELSE lines

\* std::cerr << message << std::endl, in main() and ValidateArgs
Cerr(lines, message) == Append(lines, [tag |-> "", message |-> message])

-----------------------------------------------------------------------------
(* Scene flattening.  ctx is what the recursion changes: the geometries of *)
(* the node being filled, the material registry, the lines logged, and     *)
(* thrown, which is TRUE while an exception is in flight.  ctx.name and    *)
(* ctx.logLevel are the node's name and m_args.logLevel.  An input object  *)
(* carries in its field fault the place where its extraction throws a      *)
(* std::exception, "none" if it does not.                                  *)

RECURSIVE ExtractGeometricItems(_, _, _, _)
RECURSIVE ExtractItemList(_, _, _, _)

\* a slip: the record is kept even when it has no vertex
ExtractGeometricItemsKeepEmpty(item, T, scale, ctx) ==
    LET mat == ExtractMaterialFromItem(item, ctx.materials)
        g0 == [EmptyGeometryData EXCEPT !.materialId = mat.id]
        g1 == ExtractMeshSets(item.m_meshsets, T, g0)
        g2 == ExtractMeshSets(item.m_meshsets_open, T, g1)
        geometries == Append(ctx.geometries, CalculateBounds(ApplyScale(g2, scale)))
    IN  ExtractItemList(item.m_child_items, T, scale,
                        [ctx EXCEPT !.geometries = geometries,
                                    !.materials = mat.materials])

\* a slip: the scale is applied to the record and again to what it holds
\* when the child items are done
ExtractGeometricItemsScaleTwice(item, T, scale, ctx) ==
    LET mat == ExtractMaterialFromItem(item, ctx.materials)
        g0 == [EmptyGeometryData EXCEPT !.materialId = mat.id]
        g1 == ExtractMeshSets(item.m_meshsets, T, g0)
        g2 == ExtractMeshSets(item.m_meshsets_open, T, g1)
        g3 == IF item.m_child_items # <<>> THEN ApplyScale(g2, scale) ELSE g2
        geometries == IF g2.vertices # <<>>
                      THEN Append(ctx.geometries, CalculateBounds(ApplyScale(g3, scale)))
                      ELSE ctx.geometries
    IN  ExtractItemList(item.m_child_items, T, scale,
                        [ctx EXCEPT !.geometries = geometries,
                                    !.materials = mat.materials])

\* a slip: the child items are gone through before the item's own record is kept
ExtractGeometricItemsChildFirst(item, T, scale, ctx) ==
    LET mat == ExtractMaterialFromItem(item, ctx.materials)
        g0 == [EmptyGeometryData EXCEPT !.materialId = mat.id]
        g1 == ExtractMeshSets(item.m_meshsets, T, g0)
        g2 == ExtractMeshSets(item.m_meshsets_open, T, g1)
        after == ExtractItemList(item.m_child_items, T, scale,
                                 [ctx EXCEPT !.materials = mat.materials])
    IN  IF g2.vertices # <<>>
        THEN [after EXCEPT !.geometries = Append(@, CalculateBounds(ApplyScale(g2, scale)))]
        ELSE after

\* a slip: the material is resolved only for an item whose record is kept
ExtractGeometricItemsMaterialLate(item, T, scale, ctx) ==
    LET g1 == ExtractMeshSets(item.m_meshsets, T, EmptyGeometryData)
        g2 == ExtractMeshSets(item.m_meshsets_open, T, g1)
        mat == IF g2.vertices # <<>> THEN ExtractMaterialFromItem(item, ctx.materials)
               ELSE [id |-> "default", materials |-> ctx.materials]
        g3 == [g2 EXCEPT !.materialId = mat.id]
        geometries == IF g2.vertices # <<>>
                      THEN Append(ctx.geometries, CalculateBounds(ApplyScale(g3, scale)))
                      ELSE ctx.geometries
    IN  ExtractItemList(item.m_child_items, T, scale,
                        [ctx EXCEPT !.geometries = geometries,
                                    !.materials = mat.materials])

ExtractGeometricItems(item, T, scale, ctx) ==
    LET mat == ExtractMaterialFromItem(item, ctx.materials)
        g0 == [EmptyGeometryData EXCEPT !.materialId = mat.id]
        g1 == ExtractMeshSets(item.m_meshsets, T, g0)
        g2 == ExtractMeshSets(item.m_meshsets_open, T, g1)
        geometries == IF g2.vertices # <<>>
                      THEN Append(ctx.geometries, CalculateBounds(ApplyScale(g2, scale)))
                      ELSE ctx.geometries
    IN  IF item.fault = "meshset"
        \* an insert of ExtractMeshSet throws: geomData is lost with the frame
        THEN [ctx EXCEPT !.materials = mat.materials, !.thrown = TRUE]
        ELSE IF item.fault = "logdebug" /\ g2.vertices # <<>>
        \* building the argument of LogDebug throws, after the push_back
        THEN [ctx EXCEPT !.geometries = geometries, !.materials = mat.materials,
                         !.thrown = TRUE]
        ELSE ExtractItemList(item.m_child_items, T, scale,
                             [ctx EXCEPT !.geometries = geometries,
                                         !.materials = mat.materials])

\* a loop over items; an exception leaves it
ExtractItemList(items, T, scale, ctx) ==
    IF items = <<>> \/ ctx.thrown THEN ctx
    ELSE ExtractItemList(Tail(items), T, scale,
                         ExtractGeometricItems(Head(items), T, scale, ctx))

RECURSIVE ExtractShapeData(_, _, _)
RECURSIVE ExtractChildElements(_, _, _)

\* a slip: no try/catch in ExtractShapeData, the exception travels on
ExtractShapeDataNoCatch(shapeData, scale, ctx) ==
    IF shapeData.fault = "transform" THEN [ctx EXCEPT !.thrown = TRUE]
    ELSE ExtractChildElements(shapeData.children, scale,
             ExtractItemList(shapeData.items, shapeData.transform, scale, ctx))

\* a slip: the transform of the first object is handed down to its child objects
RECURSIVE ExtractSubtreeWith(_, _, _, _)
ExtractSubtreeWith(shapes, T, scale, ctx) ==
    IF shapes = <<>> THEN ctx
    ELSE ExtractSubtreeWith(Tail(shapes), T, scale,
             ExtractSubtreeWith(Head(shapes).children, T, scale,
                 ExtractItemList(Head(shapes).items, T, scale, ctx)))

ExtractShapeDataTopTransform(shapeData, scale, ctx) ==
    ExtractSubtreeWith(<<shapeData>>, shapeData.transform, scale, ctx)

ExtractShapeData(shapeData, scale, ctx) ==
    LET localTransform == shapeData.transform
        try == IF shapeData.fault = "transform" THEN [ctx EXCEPT !.thrown = TRUE]
               ELSE ExtractChildElements(shapeData.children, scale,
                        ExtractItemList(shapeData.items, localTransform, scale, ctx))
    IN  IF try.thrown
        THEN [try EXCEPT !.thrown = FALSE,
                         !.log = LogWarning(@, ctx.logLevel,
                                     "Failed to extract shape data for " \o ctx.name)]
        ELSE try

\* the loop over the child elements; an exception leaves it
ExtractChildElements(children, scale, ctx) ==
    IF children = <<>> \/ ctx.thrown THEN ctx
    ELSE ExtractChildElements(Tail(children), scale,
                              ExtractShapeData(Head(children), scale, ctx))

GetEntityName(entity) ==
    IF entity.m_Name # "" THEN entity.m_Name
    ELSE IF entity.m_GlobalId # "" THEN entity.m_GlobalId
    ELSE "Unnamed"


-----------------------------------------------------------------------------
(* Text *)

RECURSIVE JoinText(_, _)
JoinText(texts, sep) ==
    IF texts = <<>> THEN ""
    ELSE IF Len(texts) = 1 THEN texts[1]
    ELSE texts[1] \o sep \o JoinText(Tail(texts), sep)

\* operator<< of an integer, and of an integer-valued float below 10^6
Num(n) == ToString(n)

\* A path is a sequence of one-character strings.
PathText(path) == JoinText(path, "")

Npos == -1

RECURSIVE FindLastOf(_, _, _)
FindLastOf(path, c, i) ==
    IF i = 0 THEN Npos
    ELSE IF path[i] = c THEN i - 1
    ELSE FindLastOf(path, c, i - 1)

\* s.substr(0, n), n possibly npos
SubstrTo(path, n) == IF n = Npos THEN path ELSE SubSeq(path, 1, n)

\* s.substr(pos)
SubstrFrom(path, pos) == SubSeq(path, pos + 1, Len(path))

BinFileName(outputFile) ==
    SubstrTo(outputFile, FindLastOf(outputFile, ".", Len(outputFile)))
        \o <<".", "b", "i", "n">>

-----------------------------------------------------------------------------
(* glTF JSON.  Every writer returns the array it emits (value) and the     *)
(* characters it writes (text).                                            *)

RECURSIVE Flatten(_)
Flatten(seqs) == IF seqs = <<>> THEN <<>> ELSE Head(seqs) \o Flatten(Tail(seqs))

\* a slip: only the first GeometryData of every node is visited
GeometriesFirstOnly(children) ==
    Flatten([i \in 1..Len(children) |-> SubSeq(children[i].geometries, 1, 1)])

\* for (auto node : m_rootNode->children) for (auto& geom : node->geometries)
GeometriesInOrder(children) ==
    Flatten([i \in 1..Len(children) |-> children[i].geometries])

SceneNodes(children) ==
    [value |-> [i \in 1..Len(children) |-> i - 1],
     text |-> JoinText([i \in 1..Len(children) |-> Num(i - 1)], ", ")]

NodeEntry(node, i) ==
    IF node.geometries # <<>>
    THEN [value |-> [name |-> node.name, mesh |-> i],
          text |-> "    {\n" \o "      \"name\": \"" \o node.name \o "\""
                   \o ",\n      \"mesh\": " \o Num(i) \o "\n    }"]
    ELSE [value |-> [name |-> node.name],
          text |-> "    {\n" \o "      \"name\": \"" \o node.name \o "\""
                   \o "\n    }"]

WriteNodes(children) ==
    LET e == [i \in 1..Len(children) |-> NodeEntry(children[i], i - 1)]
    IN  [value |-> [i \in 1..Len(e) |-> e[i].value],
         text |-> "  \"nodes\": [\n"
                  \o JoinText([i \in 1..Len(e) |-> e[i].text], ",\n")
                  \o "\n  ],\n"]

WriteNodesForGlb(children) ==
    LET e == [i \in 1..Len(children) |-> NodeEntry(children[i], i - 1)]
    IN  [value |-> [i \in 1..Len(e) |-> e[i].value],
         text |-> "  \"nodes\": [\n"
                  \o JoinText([i \in 1..Len(e) |-> e[i].text], ",\n")
                  \o "\n  ],\n"]

Primitive(accessorIndex) ==
    [value |-> [attributes |-> [POSITION |-> accessorIndex * 3,
                                NORMAL |-> accessorIndex * 3 + 1],
                indices |-> accessorIndex * 3 + 2,
                material |-> 0],
     text |-> "        {\n" \o "          \"attributes\": {\n"
              \o "            \"POSITION\": " \o Num(accessorIndex * 3) \o ",\n"
              \o "            \"NORMAL\": " \o Num(accessorIndex * 3 + 1) \o "\n"
              \o "          },\n"
              \o "          \"indices\": " \o Num(accessorIndex * 3 + 2) \o ",\n"
              \o "          \"material\": 0\n" \o "        }"]

\* a slip: the primitive refers to the material of its record (0 the default
\* material, 1 any other), with a materials array of one entry
PrimitivesByMaterial(node, accessorIndex) ==
    [i \in 1..Len(node.geometries) |->
        LET k == accessorIndex + i - 1
            m == IF node.geometries[i].materialId = "default" THEN 0 ELSE 1
        IN  [value |-> [Primitive(k).value EXCEPT !.material = m],
             text |-> "        {\n" \o "          \"attributes\": {\n"
                      \o "            \"POSITION\": " \o Num(k * 3) \o ",\n"
                      \o "            \"NORMAL\": " \o Num(k * 3 + 1) \o "\n"
                      \o "          },\n"
                      \o "          \"indices\": " \o Num(k * 3 + 2) \o ",\n"
                      \o "          \"material\": " \o Num(m) \o "\n" \o "        }"]]

\* the primitives of one node: accessorIndex++ after each
Primitives(node, accessorIndex) ==
    [i \in 1..Len(node.geometries) |-> Primitive(accessorIndex + i - 1)]

MeshEntry(node, accessorIndex) ==
    LET p == Primitives(node, accessorIndex)
    IN  [value |-> [name |-> node.name \o "_Mesh",
                    primitives |-> [i \in 1..Len(p) |-> p[i].value]],
         text |-> "    {\n" \o "      \"name\": \"" \o node.name \o "_Mesh\",\n"
                  \o "      \"primitives\": [\n"
                  \o JoinText([i \in 1..Len(p) |-> p[i].text], ",\n")
                  \o "\n      ]\n" \o "    }"]

\* a slip: accessorIndex starts again at 0 for every mesh
RECURSIVE MeshesFromPerMesh(_, _)
MeshesFromPerMesh(children, accessorIndex) ==
    IF children = <<>> THEN <<>>
    ELSE IF Head(children).geometries = <<>>
         THEN MeshesFromPerMesh(Tail(children), 0)
         ELSE <<MeshEntry(Head(children), 0)>> \o MeshesFromPerMesh(Tail(children), 0)

\* the loop over the nodes, carrying accessorIndex from one node to the next
RECURSIVE MeshesFrom(_, _)
MeshesFrom(children, accessorIndex) ==
    IF children = <<>> THEN <<>>
    ELSE IF Head(children).geometries = <<>>
         THEN MeshesFrom(Tail(children), accessorIndex)
         ELSE <<MeshEntry(Head(children), accessorIndex)>>
              \o MeshesFrom(Tail(children),
                            accessorIndex + Len(Head(children).geometries))

WriteMeshes(children) ==
    LET e == MeshesFrom(children, 0)
    IN  [value |-> [i \in 1..Len(e) |-> e[i].value],
         text |-> "  \"meshes\": [\n"
                  \o JoinText([i \in 1..Len(e) |-> e[i].text], ",\n")
                  \o "\n  ],\n"]

WriteMeshesForGlb(children) ==
    LET e == MeshesFrom(children, 0)
    IN  [value |-> [i \in 1..Len(e) |-> e[i].value],
         text |-> "  \"meshes\": [\n"
                  \o JoinText([i \in 1..Len(e) |-> e[i].text], ",\n")
                  \o "\n  ],\n"]

\* operator<< of a float, for an integer-valued float: the stream has the
\* default precision of 6 significant digits and no floatfield flag (%g), so a
\* value of seven digits or more is rounded to six digits and written
\* d.ddddde+XX without trailing zeros.  FloatShown is the mantissa and the
\* exponent written, FloatRead the number a reader of the text gets back.
RECURSIVE Pow10(_)
Pow10(k) == IF k = 0 THEN 1 ELSE 10 * Pow10(k - 1)

RECURSIVE Log10Floor(_)
Log10Floor(n) == IF n < 10 THEN 0 ELSE 1 + Log10Floor(n \div 10)

FloatShown(v) ==
    LET a == IF v < 0 THEN -v ELSE v
        e == Log10Floor(a)
        unit == Pow10(e - 5)
        q == a \div unit
        r == a % unit
        m == IF 2 * r > unit \/ (2 * r = unit /\ q % 2 = 1) THEN q + 1 ELSE q
    IN  IF m = Pow10(6) THEN [mantissa |-> Pow10(5), exponent |-> e + 1]
        ELSE [mantissa |-> m, exponent |-> e]

FloatRead(v) ==
    IF -Pow10(6) < v /\ v < Pow10(6) THEN v
    ELSE LET shown == FloatShown(v)
         IN  (IF v < 0 THEN -1 ELSE 1) * shown.mantissa * Pow10(shown.exponent - 5)

\* the digits of a six-digit mantissa after the first, without trailing zeros
RECURSIVE FractionText(_, _)
FractionText(m, k) ==
    IF k = 0 \/ m % Pow10(k) = 0 THEN ""
    ELSE ToString((m \div Pow10(k - 1)) % 10) \o FractionText(m, k - 1)

FloatText(v) ==
    IF -Pow10(6) < v /\ v < Pow10(6) THEN ToString(v)
    ELSE LET shown == FloatShown(v)
             fraction == FractionText(shown.mantissa, 5)
         IN  (IF v < 0 THEN "-" ELSE "") \o ToString(shown.mantissa \div Pow10(5))
                 \o (IF fraction = "" THEN "" ELSE "." \o fraction)
                 \o "e+" \o (IF shown.exponent < 10 THEN "0" ELSE "")
                 \o ToString(shown.exponent)

Vec3Text(v) ==
    "[" \o FloatText(v[1]) \o ", " \o FloatText(v[2]) \o ", " \o FloatText(v[3]) \o "]"

Vec3Read(v) == [j \in 1..3 |-> FloatRead(v[j])]

\* the three accessors of one GeometryData, as written
AccessorTripleOf(bufferViewIndex, vertexCount, indexCount, minBounds, maxBounds) ==
        [value |-> <<[bufferView |-> bufferViewIndex, componentType |-> 5126,
                      count |-> vertexCount, type |-> "VEC3",
                      min |-> Vec3Read(minBounds), max |-> Vec3Read(maxBounds)],
                     [bufferView |-> bufferViewIndex + 1, componentType |-> 5126,
                      count |-> vertexCount, type |-> "VEC3"],
                     [bufferView |-> bufferViewIndex + 2, componentType |-> 5125,
                      count |-> indexCount, type |-> "SCALAR"]>>,
         text |-> "    {\n"
                  \o "      \"bufferView\": " \o Num(bufferViewIndex) \o ",\n"
                  \o "      \"componentType\": 5126,\n"
                  \o "      \"count\": " \o Num(vertexCount) \o ",\n"
                  \o "      \"type\": \"VEC3\",\n"
                  \o "      \"min\": " \o Vec3Text(minBounds) \o ",\n"
                  \o "      \"max\": " \o Vec3Text(maxBounds) \o "\n"
                  \o "    },\n"
                  \o "    {\n"
                  \o "      \"bufferView\": " \o Num(bufferViewIndex + 1) \o ",\n"
                  \o "      \"componentType\": 5126,\n"
                  \o "      \"count\": " \o Num(vertexCount) \o ",\n"
                  \o "      \"type\": \"VEC3\"\n"
                  \o "    },\n"
                  \o "    {\n"
                  \o "      \"bufferView\": " \o Num(bufferViewIndex + 2) \o ",\n"
                  \o "      \"componentType\": 5125,\n"
                  \o "      \"count\": " \o Num(indexCount) \o ",\n"
                  \o "      \"type\": \"SCALAR\"\n"
                  \o "    }"]

\* a slip: the index accessor counts triangles
AccessorTripleTriangles(geom, bufferViewIndex) ==
    AccessorTripleOf(bufferViewIndex, Len(geom.vertices) \div 3,
                     Len(geom.indices) \div 3, geom.minBounds, geom.maxBounds)

AccessorTriple(geom, bufferViewIndex) ==
    AccessorTripleOf(bufferViewIndex, Len(geom.vertices) \div 3,
                     Len(geom.indices), geom.minBounds, geom.maxBounds)

\* bufferViewIndex += 3 after each GeometryData
RECURSIVE AccessorsFrom(_, _)
AccessorsFrom(geoms, bufferViewIndex) ==
    IF geoms = <<>> THEN <<>>
    ELSE <<AccessorTriple(Head(geoms), bufferViewIndex)>>
         \o AccessorsFrom(Tail(geoms), bufferViewIndex + 3)

WriteAccessors(children) ==
    LET e == AccessorsFrom(GeometriesInOrder(children), 0)
    IN  [value |-> Flatten([i \in 1..Len(e) |-> e[i].value]),
         text |-> "  \"accessors\": [\n"
                  \o JoinText([i \in 1..Len(e) |-> e[i].text], ",\n")
                  \o "\n  ],\n"]

WriteAccessorsForGlb(children) ==
    LET e == AccessorsFrom(GeometriesInOrder(children), 0)
    IN  [value |-> Flatten([i \in 1..Len(e) |-> e[i].value]),
         text |-> "  \"accessors\": [\n"
                  \o JoinText([i \in 1..Len(e) |-> e[i].text], ",\n")
                  \o "\n  ],\n"]

BufferViewText(byteOffset, byteLength, target) ==
    "    {\n" \o "      \"buffer\": 0,\n"
    \o "      \"byteOffset\": " \o Num(byteOffset) \o ",\n"
    \o "      \"byteLength\": " \o Num(byteLength) \o ",\n"
    \o "      \"target\": " \o Num(target) \o "\n" \o "    }"

\* a slip: byteOffset is not advanced past the index view
BufferViewTripleStale(geom, byteOffset) ==
    LET vertexBytes == Len(geom.vertices) * 4
        normalBytes == Len(geom.normals) * 4
        indexBytes == Len(geom.indices) * 4
        o1 == byteOffset
        o2 == o1 + vertexBytes
        o3 == o2 + normalBytes
    IN  [value |-> <<[buffer |-> 0, byteOffset |-> o1, byteLength |-> vertexBytes,
                      target |-> 34962],
                     [buffer |-> 0, byteOffset |-> o2, byteLength |-> normalBytes,
                      target |-> 34962],
                     [buffer |-> 0, byteOffset |-> o3, byteLength |-> indexBytes,
                      target |-> 34963]>>,
         text |-> BufferViewText(o1, vertexBytes, 34962) \o ",\n"
                  \o BufferViewText(o2, normalBytes, 34962) \o ",\n"
                  \o BufferViewText(o3, indexBytes, 34963),
         byteOffset |-> o3]

\* the three bufferViews of one GeometryData, byteOffset advancing after each
BufferViewTriple(geom, byteOffset) ==
    LET vertexBytes == Len(geom.vertices) * 4
        normalBytes == Len(geom.normals) * 4
        indexBytes == Len(geom.indices) * 4
        o1 == byteOffset
        o2 == o1 + vertexBytes
        o3 == o2 + normalBytes
    IN  [value |-> <<[buffer |-> 0, byteOffset |-> o1, byteLength |-> vertexBytes,
                      target |-> 34962],
                     [buffer |-> 0, byteOffset |-> o2, byteLength |-> normalBytes,
                      target |-> 34962],
                     [buffer |-> 0, byteOffset |-> o3, byteLength |-> indexBytes,
                      target |-> 34963]>>,
         text |-> BufferViewText(o1, vertexBytes, 34962) \o ",\n"
                  \o BufferViewText(o2, normalBytes, 34962) \o ",\n"
                  \o BufferViewText(o3, indexBytes, 34963),
         byteOffset |-> o3 + indexBytes]

RECURSIVE BufferViewsFrom(_, _)
BufferViewsFrom(geoms, byteOffset) ==
    IF geoms = <<>> THEN <<>>
    ELSE LET t == BufferViewTriple(Head(geoms), byteOffset)
         IN  <<t>> \o BufferViewsFrom(Tail(geoms), t.byteOffset)

WriteBufferViews(children) ==
    LET e == BufferViewsFrom(GeometriesInOrder(children), 0)
    IN  [value |-> Flatten([i \in 1..Len(e) |-> e[i].value]),
         text |-> "  \"bufferViews\": [\n"
                  \o JoinText([i \in 1..Len(e) |-> e[i].text], ",\n")
                  \o "\n  ],\n"]

WriteBufferViewsForGlb(children) ==
    LET e == BufferViewsFrom(GeometriesInOrder(children), 0)
    IN  [value |-> Flatten([i \in 1..Len(e) |-> e[i].value]),
         text |-> "  \"bufferViews\": [\n"
                  \o JoinText([i \in 1..Len(e) |-> e[i].text], ",\n")
                  \o "\n  ],\n"]

RECURSIVE TotalBytes(_)
TotalBytes(geoms) ==
    IF geoms = <<>> THEN 0
    ELSE Len(Head(geoms).vertices) * 4 + Len(Head(geoms).normals) * 4
         + Len(Head(geoms).indices) * 4 + TotalBytes(Tail(geoms))

BinFileNameOnly(outputFile) ==
    LET binFileName == BinFileName(outputFile)
        only == SubstrFrom(binFileName, FindLastOf(binFileName, "/", Len(binFileName)) + 1)
    IN  IF only = binFileName
        THEN SubstrFrom(binFileName, FindLastOf(binFileName, "\\", Len(binFileName)) + 1)
        ELSE only

WriteBuffers(children, outputFile) ==
    LET totalBytes == TotalBytes(GeometriesInOrder(children))
        uri == PathText(BinFileNameOnly(outputFile))
    IN  [value |-> <<[uri |-> uri, byteLength |-> totalBytes]>>,
         text |-> "  \"buffers\": [\n" \o "    {\n"
                  \o "      \"uri\": \"" \o uri \o "\",\n"
                  \o "      \"byteLength\": " \o Num(totalBytes) \o "\n"
                  \o "    }\n" \o "  ],\n"]

WriteBuffersForGlb(children) ==
    LET totalBytes == TotalBytes(GeometriesInOrder(children))
    IN  [value |-> <<[byteLength |-> totalBytes]>>,
         text |-> "  \"buffers\": [\n" \o "    {\n"
                  \o "      \"byteLength\": " \o Num(totalBytes) \o "\n"
                  \o "    }\n" \o "  ],\n"]

MaterialsText ==
    "  \"materials\": [\n" \o "    {\n" \o "      \"name\": \"Default\",\n"
    \o "      \"pbrMetallicRoughness\": {\n"
    \o "        \"baseColorFactor\": [0.8, 0.8, 0.8, 1.0],\n"
    \o "        \"metallicFactor\": 0.0,\n"
    \o "        \"roughnessFactor\": 0.9\n"
    \o "      }\n" \o "    }\n" \o "  ]\n"

\* the one material the text above spells out (colour components in tenths)
WriteMaterials ==
    [value |-> <<[name |-> "Default", baseColorFactor |-> <<8, 8, 8, 10>>,
                  metallicFactor |-> 0, roughnessFactor |-> 9]>>,
     text |-> MaterialsText]

WriteMaterialsForGlb ==
    [value |-> <<[name |-> "Default", baseColorFactor |-> <<8, 8, 8, 10>>,
                  metallicFactor |-> 0, roughnessFactor |-> 9]>>,
     text |-> MaterialsText]

RootName == "Scene"

WriteGltfJson(children, outputFile) ==
    LET sn == SceneNodes(children)
        nodes == WriteNodes(children)
        meshes == WriteMeshes(children)
        accessors == WriteAccessors(children)
        bufferViews == WriteBufferViews(children)
        buffers == WriteBuffers(children, outputFile)
        materials == WriteMaterials
    IN  [exists |-> TRUE,
         value |-> [scene |-> 0,
                    scenes |-> <<[name |-> RootName, nodes |-> sn.value]>>,
                    nodes |-> nodes.value, meshes |-> meshes.value,
                    accessors |-> accessors.value, bufferViews |-> bufferViews.value,
                    buffers |-> buffers.value, materials |-> materials.value],
         text |-> "{\n" \o "  \"asset\": {\n" \o "    \"version\": \"2.0\",\n"
                  \o "    \"generator\": \"Simple IFC2GLTF Converter v1.0 (Fixed)\"\n"
                  \o "  },\n" \o "  \"scene\": 0,\n" \o "  \"scenes\": [\n" \o "    {\n"
                  \o "      \"name\": \"" \o RootName \o "\",\n"
                  \o "      \"nodes\": [" \o sn.text \o "]\n" \o "    }\n" \o "  ],\n"
                  \o nodes.text \o meshes.text \o accessors.text \o bufferViews.text
                  \o buffers.text \o materials.text \o "}\n"]

WriteGltfJsonForGlb(children) ==
    LET sn == SceneNodes(children)
        nodes == WriteNodesForGlb(children)
        meshes == WriteMeshesForGlb(children)
        accessors == WriteAccessorsForGlb(children)
        bufferViews == WriteBufferViewsForGlb(children)
        buffers == WriteBuffersForGlb(children)
        materials == WriteMaterialsForGlb
    IN  [exists |-> TRUE,
         value |-> [scene |-> 0,
                    scenes |-> <<[name |-> RootName, nodes |-> sn.value]>>,
                    nodes |-> nodes.value, meshes |-> meshes.value,
                    accessors |-> accessors.value, bufferViews |-> bufferViews.value,
                    buffers |-> buffers.value, materials |-> materials.value],
         text |-> "{\n" \o "  \"asset\": {\n" \o "    \"version\": \"2.0\",\n"
                  \o "    \"generator\": \"Simple IFC2GLTF Converter v1.0 (GLB)\"\n"
                  \o "  },\n" \o "  \"scene\": 0,\n" \o "  \"scenes\": [\n" \o "    {\n"
                  \o "      \"name\": \"" \o RootName \o "\",\n"
                  \o "      \"nodes\": [" \o sn.text \o "]\n" \o "    }\n" \o "  ],\n"
                  \o nodes.text \o meshes.text \o accessors.text \o bufferViews.text
                  \o buffers.text \o materials.text \o "}"]

-----------------------------------------------------------------------------
(* Binary data *)

\* a slip: the indices are written before the normals
RECURSIVE WriteBinaryDataSwapped(_)
WriteBinaryDataSwapped(geoms) ==
    IF geoms = <<>> THEN <<>>
    ELSE FloatArrayBytes(Head(geoms).vertices)
         \o IndexArrayBytes(Head(geoms).indices)
         \o FloatArrayBytes(Head(geoms).normals)
         \o WriteBinaryDataSwapped(Tail(geoms))

\* Each GeometryData contributes three write calls: vertices, normals, indices.
RECURSIVE WriteBinaryData(_)
WriteBinaryData(geoms) ==
    IF geoms = <<>> THEN <<>>
    ELSE FloatArrayBytes(Head(geoms).vertices)
         \o FloatArrayBytes(Head(geoms).normals)
         \o IndexArrayBytes(Head(geoms).indices)
         \o WriteBinaryData(Tail(geoms))

\* binaryData.insert(binaryData.end(), ...) three times for each GeometryData
RECURSIVE CollectBinaryData(_, _)
CollectBinaryData(geoms, binary) ==
    IF geoms = <<>> THEN binary
    ELSE LET b1 == binary \o FloatArrayBytes(Head(geoms).vertices)
             b2 == b1 \o FloatArrayBytes(Head(geoms).normals)
             b3 == b2 \o IndexArrayBytes(Head(geoms).indices)
         IN  CollectBinaryData(Tail(geoms), b3)


-----------------------------------------------------------------------------
(* GLB container.  The file is the sequence of the write calls made on it: *)
(* a uint32 (4 bytes), a run of data bytes, or the run of put() calls of a *)
(* padding loop.                                                           *)

GlbMagic == 1179937895        \* 0x46546C67
GlbVersion == 2
GlbJsonType == 1313821514     \* 0x4E4F534A
GlbBinaryType == 5130562      \* 0x004E4942

U32Seg(x) == [kind |-> "u32", val |-> x]
DataSeg(blob) == [kind |-> "data", len |-> blob.len, data |-> blob.data]
PadSeg(byte, n) == [kind |-> "pad", byte |-> byte, count |-> n]

\* for (size_t i = length; i < alignedLength; ++i) : the number of passes
PadCount(length, alignedLength) ==
    IF SzLess(length, alignedLength) THEN SzSub(alignedLength, length) ELSE SizeOf(0)

GlbTotalLength(json, binary) ==
    LET jsonLength == U32(AlignUp4(json.len))
        binaryLength == U32(AlignUp4(binary.len))
    IN  U32(SzAdd(SzAdd(SizeOf(12 + 8), jsonLength),
                  IF binary.len = SizeOf(0) THEN SizeOf(0)
                  ELSE U32(SzAdd(SizeOf(8), binaryLength))))

WriteGlbHeader(file, json, binary) ==
    file \o <<U32Seg(SizeOf(GlbMagic)), U32Seg(SizeOf(GlbVersion)),
              U32Seg(GlbTotalLength(json, binary))>>

WriteGlbJsonChunk(file, json) ==
    LET jsonLength == U32(AlignUp4(json.len))
    IN  file \o <<U32Seg(jsonLength), U32Seg(SizeOf(GlbJsonType)), DataSeg(json),
                  PadSeg(32, PadCount(json.len, jsonLength))>>

WriteGlbBinaryChunk(file, binary) ==
    LET binaryLength == U32(AlignUp4(binary.len))
    IN  file \o <<U32Seg(binaryLength), U32Seg(SizeOf(GlbBinaryType)), DataSeg(binary),
                  PadSeg(0, PadCount(binary.len, binaryLength))>>

NoData == [len |-> SizeOf(0), data |-> <<>>]

-----------------------------------------------------------------------------
(* The input: what the geometry converter hands over *)

Identity == <<<<1, 0, 0, 0>>, <<0, 1, 0, 0>>, <<0, 0, 1, 0>>, <<0, 0, 0, 1>>>>

\* a quarter turn about z followed by the translation (1, 2, 3)
Placed == <<<<0, -1, 0, 1>>, <<1, 0, 0, 2>>, <<0, 0, 1, 3>>, <<0, 0, 0, 1>>>>

Transforms == {Identity, Placed}

FaceTri ==
    [n_edges |-> 3, loop |-> <<<<0, 0, 0>>, <<1, 0, 0>>, <<0, 1, 0>>>>, N |-> <<0, 0, 1>>]

FaceQuad ==
    [n_edges |-> 4, loop |-> <<<<0, 0, 2>>, <<3, 0, 2>>, <<3, 1, 2>>, <<0, 1, 2>>>>,
     N |-> <<0, 0, -1>>]

\* a face whose loop has n vertices, on the parabola y = x^2 of the plane z = 1
GenFace(n) ==
    [n_edges |-> n, loop |-> [k \in 1..n |-> <<k - 1, (k - 1) * (k - 1), 1>>],
     N |-> <<0, 0, 1>>]

MeshSetOf(faces) == [meshes |-> <<[faces |-> faces]>>]

MSTri == MeshSetOf(<<FaceTri>>)
MSQuad == MeshSetOf(<<FaceQuad>>)
MSDegenerate == [meshes |-> <<NullPtr, [faces |-> <<NullPtr, GenFace(2)>>]>>]
MSTriB == [meshes |-> <<[faces |-> <<>>], [faces |-> <<GenFace(1), GenFace(3)>>]>>]

MeshSetLib ==
    {NullPtr, MSTri, MSQuad, MSDegenerate, MSTriB}
        \cup {MeshSetOf(<<GenFace(n)>>) : n \in 0..MaxFaceLen}

Red == [m_color_rgba |-> <<10, 0, 0, 10>>]
Rgb == [m_color_rgba |-> <<0, 5, 0>>]

Item(closed, open, appearances, childItems) ==
    [m_meshsets |-> closed, m_meshsets_open |-> open,
     m_vec_item_appearances |-> appearances, m_child_items |-> childItems,
     fault |-> "none"]

ItemTri == Item(<<MSTri>>, <<>>, <<NullPtr, Rgb, Red>>, <<>>)
ItemQuadOpen == Item(<<>>, <<MSQuad>>, <<>>, <<>>)
ItemEmpty == Item(<<NullPtr, MSDegenerate>>, <<>>, <<Rgb>>, <<>>)
ItemNested == Item(<<MSTriB>>, <<MSTri>>, <<Red>>, <<ItemEmpty, ItemQuadOpen>>)
ItemHollow == Item(<<>>, <<>>, <<>>, <<ItemTri>>)

Shape(name, globalId, transform, items, children) ==
    [expired |-> FALSE, entity |-> [m_Name |-> name, m_GlobalId |-> globalId],
     transform |-> transform, items |-> items, children |-> children,
     fault |-> "none"]

ShapeEmpty == Shape("Void", "g0", Identity, <<ItemEmpty>>, <<>>)
ShapeTri == Shape("Tri", "g1", Identity, <<ItemTri>>, <<>>)
ShapeQuad == Shape("", "2O2Fr", Placed, <<ItemQuadOpen>>, <<>>)
ShapeTwo == Shape("", "", Placed, <<ItemQuadOpen, ItemTri>>, <<>>)
ShapeNested == Shape("Wall", "g4", Identity, <<ItemNested>>, <<ShapeQuad>>)
ShapeCarrier == Shape("Storey", "g5", Placed, <<>>, <<ShapeEmpty, ShapeTri>>)
ShapeBare == Shape("Site", "g6", Identity, <<ItemEmpty>>, <<ShapeEmpty>>)
ShapeExpired == [ShapeTri EXCEPT !.expired = TRUE]
ShapeHollow == Shape("Roof", "g8", Placed, <<ItemHollow>>, <<>>)

ShapeLib ==
    {NullPtr, ShapeEmpty, ShapeTri, ShapeTwo, ShapeNested, ShapeCarrier, ShapeBare,
     ShapeExpired, ShapeHollow}

RECURSIVE SeqsUpTo(_, _)
SeqsUpTo(S, n) ==
    IF n = 0 THEN {<<>>}
    ELSE LET shorter == SeqsUpTo(S, n - 1)
         IN  shorter \cup {Append(s, x) : s \in {t \in shorter : Len(t) = n - 1}, x \in S}

Scales == {1, 2}

OutputFiles(outputGlb) ==
    IF outputGlb THEN {<<"o", ".", "g", "l", "b">>}
    ELSE {<<"d", ".", "1", "/", "m", ".", "g", "l", "t", "f">>}

ArgsSet ==
    {[inputFile |-> "in.ifc", outputFile |-> f, scale |-> s, logLevel |-> 1,
      outputGlb |-> g] :
        s \in Scales, g \in BOOLEAN, f \in OutputFiles(TRUE) \cup OutputFiles(FALSE)}

-----------------------------------------------------------------------------
(* main(): the command line.  argv is a sequence of strings; Chars gives   *)
(* the characters of the strings used as output paths, and Numbers the     *)
(* value std::stof / std::stoi read from a string (a string outside        *)
(* Numbers makes them throw std::invalid_argument).                        *)

Chars ==
    [t \in {"o.glb", "d.1/m.gltf", "output_fixed.gltf"} |->
        CASE t = "o.glb" -> <<"o", ".", "g", "l", "b">>
          [] t = "d.1/m.gltf" -> <<"d", ".", "1", "/", "m", ".", "g", "l", "t", "f">>
          [] t = "output_fixed.gltf" ->
                <<"o", "u", "t", "p", "u", "t", "_", "f", "i", "x", "e", "d",
                  ".", "g", "l", "t", "f">>]

Numbers == [t \in {"-1", "0", "1", "2", "3"} |->
              CASE t = "-1" -> -1 [] t = "0" -> 0 [] t = "1" -> 1 [] t = "2" -> 2
                [] t = "3" -> 3]

\* CommandLineArgs args;
DefaultArgs ==
    [inputFile |-> "", outputFile |-> <<>>, scale |-> 1, logLevel |-> 1,
     outputGlb |-> FALSE]

\* The loop of ParseCommandLine from argv[i] on.  outcome is "parsed", "help"
\* (exit(0) was called) or "exception" (stof or stoi threw).
RECURSIVE ParseFrom(_, _, _)
ParseFrom(args, av, i) ==
    IF i > Len(av) THEN [outcome |-> "parsed", args |-> args]
    ELSE LET arg == av[i]
             hasValue == i + 1 <= Len(av)
         IN  IF arg \in {"-i", "--input"}
             THEN IF hasValue
                  THEN ParseFrom([args EXCEPT !.inputFile = av[i + 1]], av, i + 2)
                  ELSE ParseFrom(args, av, i + 1)
             ELSE IF arg \in {"-o", "--output"}
             THEN IF hasValue
                  THEN ParseFrom([args EXCEPT !.outputFile = Chars[av[i + 1]]], av, i + 2)
                  ELSE ParseFrom(args, av, i + 1)
             ELSE IF arg \in {"-s", "--scale"}
             THEN IF hasValue
                  THEN IF av[i + 1] \in DOMAIN Numbers
                       THEN ParseFrom([args EXCEPT !.scale = Numbers[av[i + 1]]], av, i + 2)
                       ELSE [outcome |-> "exception", args |-> args]
                  ELSE ParseFrom(args, av, i + 1)
             ELSE IF arg \in {"-l", "--log"}
             THEN IF hasValue
                  THEN IF av[i + 1] \in DOMAIN Numbers
                       THEN ParseFrom([args EXCEPT !.logLevel = Numbers[av[i + 1]]],
                                      av, i + 2)
                       ELSE [outcome |-> "exception", args |-> args]
                  ELSE ParseFrom(args, av, i + 1)
             ELSE IF arg = "--glb"
             THEN ParseFrom([args EXCEPT !.outputGlb = TRUE], av, i + 1)
             ELSE IF arg \in {"-h", "--help"}
             THEN [outcome |-> "help", args |-> args]
             ELSE ParseFrom(args, av, i + 1)

ParseCommandLine(av) == ParseFrom(DefaultArgs, av, 1)

\* main(): if (args.inputFile.empty()) { ... defaults ... }
WithDefaults(args) ==
    IF args.inputFile = ""
    THEN [args EXCEPT !.inputFile = "example.ifc",
                      !.outputFile = Chars["output_fixed.gltf"],
                      !.scale = 1, !.logLevel = 2]
    ELSE args

\* The line ValidateArgs prints, or "" when it returns true.
ValidateArgs(args) ==
    IF args.inputFile = "" THEN "Error: Input file not specified. Use -i or --input option."
    ELSE IF args.outputFile = <<>>
    THEN "Error: Output file not specified. Use -o or --output option."
    ELSE IF args.scale <= 0 THEN "Error: Scale factor must be positive."
    ELSE IF args.logLevel < 0 \/ args.logLevel > 2 THEN "Error: Log level must be 0, 1, or 2."
    ELSE ""

\* The command lines tried: one choice per option, in a fixed order, and a tail.
CommandLines ==
    {in \o out \o sc \o lv \o glb \o tail :
        in \in {<<>>, <<"-i", "in.ifc">>},
        out \in {<<>>, <<"-o", "o.glb">>, <<"--output", "d.1/m.gltf">>},
        sc \in {<<>>, <<"-s", "2">>, <<"-s", "0">>, <<"-s", "-1">>, <<"--scale", "abc">>},
        lv \in {<<>>, <<"-l", "0">>, <<"-l", "2">>, <<"-l", "3">>, <<"--log", "-1">>},
        glb \in {<<>>, <<"--glb">>},
        tail \in {<<>>, <<"-h">>, <<"-i">>}}

\* The arguments main() hands to the converter, for a command line it accepts.
Accepted(av) ==
    /\ ParseCommandLine(av).outcome = "parsed"
    /\ ValidateArgs(WithDefaults(ParseCommandLine(av).args)) = ""

\* A command line that makes main() construct the converter with args.
CommandLineFor(args) ==
    CHOOSE av \in CommandLines :
        Accepted(av) /\ WithDefaults(ParseCommandLine(av).args) = args

-----------------------------------------------------------------------------
(* Convert() *)

Init ==
    /\ mapEntities \in SeqsUpTo(ShapeLib, MaxEntities)
    /\ m_args \in {a \in ArgsSet : a.outputFile \in OutputFiles(a.outputGlb)}
    /\ pc = "load"
    /\ nextEntity = 1
    /\ rootChildren = <<>>
    /\ m_materials = <<>>
    /\ gltf = NoFile
    /\ binFile = NoFile
    /\ glbFile = NoFile
    /\ jsonString = NoData
    /\ binaryData = NoData
    /\ geomData = EmptyGeometryData
    /\ result = "none"
    /\ argv = CommandLineFor(m_args)
    /\ exitCode = "none"
    /\ log = <<>>
    /\ previous = NoFile

\* Convert() returns false from position pc
Fail ==
    /\ pc' = "done"
    /\ result' = "false"

\* a slip: the result of LoadIFCFile is not looked at
LoadIFCFileContinues ==
    /\ pc = "load"
    /\ \E outcome \in {"loaded", "empty", "exception"} :
          /\ pc' = "convert"
          /\ result' = result
          /\ log' = IF outcome = "loaded" THEN log
                    ELSE LogError(log, IF outcome = "empty"
                                       THEN "IFC model is empty or invalid"
                                       ELSE "Error loading IFC file: ")
    /\ UNCHANGED <<argv, exitCode, previous, mapEntities, m_args, nextEntity, rootChildren,
                   m_materials, gltf, binFile, glbFile, jsonString, binaryData, geomData>>

LoadIFCFile ==
    /\ pc = "load"
    /\ \E outcome \in {"loaded", "empty", "exception"} :
          IF outcome = "loaded"
          THEN pc' = "convert" /\ result' = result /\ log' = log
          ELSE /\ Fail
               /\ log' = LogError(LogError(log,
                              IF outcome = "empty" THEN "IFC model is empty or invalid"
                              ELSE "Error loading IFC file: "),
                              "Failed to load IFC file: " \o m_args.inputFile)
    /\ UNCHANGED <<argv, exitCode, previous, mapEntities, m_args, nextEntity, rootChildren,
                   m_materials, gltf, binFile, glbFile, jsonString, binaryData, geomData>>

ConvertGeometry ==
    /\ pc = "convert"
    /\ \E outcome \in {"converted", "exception"} :
          IF outcome = "converted"
          THEN pc' = "extract" /\ result' = result /\ log' = log
          ELSE /\ Fail
               /\ log' = LogError(LogError(log, "Error converting geometry: "),
                                  "Failed to convert geometry")
    /\ UNCHANGED <<argv, exitCode, previous, mapEntities, m_args, nextEntity, rootChildren,
                   m_materials, gltf, binFile, glbFile, jsonString, binaryData, geomData>>

\* The node of a top-level entity, filled by ExtractShapeData.
ExtractNode(shapeData) ==
    ExtractShapeData(shapeData, m_args.scale,
        [geometries |-> <<>>, materials |-> m_materials, log |-> log, thrown |-> FALSE,
         name |-> GetEntityName(shapeData.entity), logLevel |-> m_args.logLevel])

\* the catch block of ExtractGeometryData, and Convert() returning false
ExtractGeometryDataCatch(lines) ==
    /\ Fail
    /\ log' = LogError(LogError(lines, "Error extracting geometry data: "),
                       "Failed to extract geometry data")
    /\ nextEntity' = nextEntity

\* a slip: the node is appended whether or not it has geometry
ExtractEntityKeepAll ==
    /\ pc = "extract"
    /\ nextEntity <= Len(mapEntities)
    /\ LET shapeData == mapEntities[nextEntity]
       IN  IF shapeData = NullPtr \/ shapeData.expired
           THEN /\ nextEntity' = nextEntity + 1
                /\ UNCHANGED <<rootChildren, m_materials, log, pc, result>>
           ELSE IF shapeData.fault = "entity"
           THEN ExtractGeometryDataCatch(log) /\ UNCHANGED <<rootChildren, m_materials>>
           ELSE LET ctx == ExtractNode(shapeData)
                    node == [name |-> ctx.name, geometries |-> ctx.geometries]
                IN  /\ m_materials' = ctx.materials
                    /\ rootChildren' = Append(rootChildren, node)
                    /\ IF ctx.thrown THEN ExtractGeometryDataCatch(ctx.log)
                       ELSE /\ log' = ctx.log
                            /\ nextEntity' = nextEntity + 1
                            /\ UNCHANGED <<pc, result>>
    /\ UNCHANGED <<argv, exitCode, previous, mapEntities, m_args, gltf, binFile, glbFile,
                   jsonString, binaryData, geomData>>

\* One pass of the loop of ExtractGeometryData over map_entities.
ExtractEntity ==
    /\ pc = "extract"
    /\ nextEntity <= Len(mapEntities)
    /\ LET shapeData == mapEntities[nextEntity]
       IN  IF shapeData = NullPtr \/ shapeData.expired
           THEN /\ nextEntity' = nextEntity + 1
                /\ UNCHANGED <<rootChildren, m_materials, log, pc, result>>
           ELSE IF shapeData.fault = "entity"
           \* the loop body throws outside ExtractShapeData
           THEN ExtractGeometryDataCatch(log) /\ UNCHANGED <<rootChildren, m_materials>>
           ELSE LET ctx == ExtractNode(shapeData)
                    node == [name |-> ctx.name, geometries |-> ctx.geometries]
                IN  /\ m_materials' = ctx.materials
                    /\ IF ctx.thrown
                       THEN ExtractGeometryDataCatch(ctx.log) /\ rootChildren' = rootChildren
                       ELSE /\ rootChildren' = IF node.geometries # <<>>
                                               THEN Append(rootChildren, node)
                                               ELSE rootChildren
                            /\ log' = ctx.log
                            /\ nextEntity' = nextEntity + 1
                            /\ UNCHANGED <<pc, result>>
    /\ UNCHANGED <<argv, exitCode, previous, mapEntities, m_args, gltf, binFile, glbFile,
                   jsonString, binaryData, geomData>>

ExtractGeometryDataReturn ==
    /\ pc = "extract"
    /\ nextEntity > Len(mapEntities)
    /\ pc' = "write"
    /\ UNCHANGED <<argv, exitCode, log, previous, mapEntities, m_args, nextEntity, rootChildren, m_materials, gltf,
                   binFile, glbFile, jsonString, binaryData, geomData, result>>

\* WriteOutputFile in glTF mode.  A file that cannot be opened is left as it was.
WriteGltfFile ==
    /\ pc = "write"
    /\ ~m_args.outputGlb
    /\ \E fileOpen \in BOOLEAN, binOpen \in BOOLEAN :
          IF ~fileOpen
          THEN /\ Fail
               /\ log' = LogError(LogError(log, "Cannot open output file: "),
                                  "Failed to write output file: ")
               /\ UNCHANGED <<gltf, binFile>>
          ELSE /\ gltf' = WriteGltfJson(rootChildren, m_args.outputFile)
               /\ binFile' = IF binOpen
                             THEN [exists |-> TRUE,
                                   name |-> BinFileName(m_args.outputFile),
                                   bytes |-> WriteBinaryData(GeometriesInOrder(rootChildren))]
                             ELSE binFile
               /\ log' = IF binOpen THEN log
                         ELSE LogWarning(log, m_args.logLevel, "Cannot create binary file: ")
               /\ pc' = "done"
               /\ result' = "true"
    /\ UNCHANGED <<argv, exitCode, previous, mapEntities, m_args, nextEntity, rootChildren,
                   m_materials, glbFile, jsonString, binaryData, geomData>>

\* WriteOutputFile in GLB mode: WriteGlbFile up to the first write on the file
WriteGlbFile ==
    /\ pc = "write"
    /\ m_args.outputGlb
    /\ \E fileOpen \in BOOLEAN :
          IF ~fileOpen
          THEN /\ Fail
               /\ log' = LogError(LogError(log, "Cannot open output file: "),
                                  "Failed to write output file: ")
               /\ UNCHANGED <<gltf, glbFile, jsonString, binaryData>>
          ELSE LET json == WriteGltfJsonForGlb(rootChildren)
                   binary == CollectBinaryData(GeometriesInOrder(rootChildren), <<>>)
               IN  /\ gltf' = json
                   /\ jsonString' = [len |-> SizeOf(Len(json.text)), data |-> json.text]
                   /\ binaryData' = [len |-> SizeOf(Len(binary)), data |-> binary]
                   /\ glbFile' = [exists |-> TRUE, writes |-> <<>>]
                   /\ pc' = "glb_header"
                   /\ result' = result
                   /\ log' = log
    /\ UNCHANGED <<argv, exitCode, previous, mapEntities, m_args, nextEntity, rootChildren,
                   m_materials, binFile, geomData>>

GlbHeaderStep ==
    /\ pc = "glb_header"
    /\ glbFile' = [glbFile EXCEPT !.writes = WriteGlbHeader(@, jsonString, binaryData)]
    /\ pc' = "glb_json"
    /\ UNCHANGED <<argv, exitCode, log, previous, mapEntities, m_args, nextEntity, rootChildren, m_materials, gltf,
                   binFile, jsonString, binaryData, geomData, result>>

GlbJsonChunkStep ==
    /\ pc = "glb_json"
    /\ glbFile' = [glbFile EXCEPT !.writes = WriteGlbJsonChunk(@, jsonString)]
    /\ pc' = "glb_binary"
    /\ UNCHANGED <<argv, exitCode, log, previous, mapEntities, m_args, nextEntity, rootChildren, m_materials, gltf,
                   binFile, jsonString, binaryData, geomData, result>>

\* if (!binaryData.empty()) WriteGlbBinaryChunk(file, binaryData);
GlbBinaryChunkStep ==
    /\ pc = "glb_binary"
    /\ glbFile' = IF binaryData.len # SizeOf(0)
                  THEN [glbFile EXCEPT !.writes = WriteGlbBinaryChunk(@, binaryData)]
                  ELSE glbFile
    /\ pc' = "glb_close"
    /\ UNCHANGED <<argv, exitCode, log, previous, mapEntities, m_args, nextEntity, rootChildren, m_materials, gltf,
                   binFile, jsonString, binaryData, geomData, result>>

GlbClose ==
    /\ pc = "glb_close"
    /\ pc' = "done"
    /\ result' = "true"
    /\ UNCHANGED <<argv, exitCode, log, previous, mapEntities, m_args, nextEntity, rootChildren, m_materials, gltf,
                   binFile, glbFile, jsonString, binaryData, geomData>>

Next ==
    \/ LoadIFCFile
    \/ ConvertGeometry
    \/ ExtractEntity
    \/ ExtractGeometryDataReturn
    \/ WriteGltfFile
    \/ WriteGlbFile
    \/ GlbHeaderStep
    \/ GlbJsonChunkStep
    \/ GlbBinaryChunkStep
    \/ GlbClose

Spec == Init /\ [][Next]_vars

-----------------------------------------------------------------------------
(* Convert() on scenes whose extraction throws *)

\* an insert of ExtractMeshSet fails for this item (std::bad_alloc)
ItemThrows == [ItemQuadOpen EXCEPT !.fault = "meshset"]
\* the item is extracted and kept, then the message of LogDebug cannot be built
ItemThrowsLate == [ItemTri EXCEPT !.fault = "logdebug"]
\* a child item fails after the record of its parent item was kept
ItemChildThrows == Item(<<MSTri>>, <<>>, <<Red>>, <<ItemThrows, ItemQuadOpen>>)

ShapeBadTransform == [Shape("Pile", "f0", Placed, <<ItemTri>>, <<ShapeQuad>>)
                         EXCEPT !.fault = "transform"]
ShapePartial == Shape("Beam", "f1", Identity, <<ItemTri, ItemThrows, ItemQuadOpen>>,
                      <<ShapeQuad>>)
ShapeLate == Shape("Door", "f2", Identity, <<ItemThrowsLate, ItemQuadOpen>>, <<>>)
ShapeChildFails == Shape("Column", "f3", Placed, <<ItemQuadOpen>>,
                         <<ShapeBadTransform, ShapeTri>>)
ShapeChildPartial == Shape("Slab", "f4", Identity, <<>>, <<ShapePartial, ShapeTri>>)
ShapeItemChild == Shape("Stair", "f5", Identity, <<ItemChildThrows>>, <<ShapeTri>>)
\* the body of the loop of ExtractGeometryData throws before ExtractShapeData
ShapeEntityFault == [Shape("Ramp", "f6", Identity, <<ItemTri>>, <<>>)
                        EXCEPT !.fault = "entity"]

FaultShapeLib ==
    {ShapeTri, ShapeBadTransform, ShapePartial, ShapeLate, ShapeChildFails,
     ShapeChildPartial, ShapeItemChild, ShapeEntityFault}

LogLevels == {0, 1, 2}

InitFault ==
    /\ mapEntities \in SeqsUpTo(FaultShapeLib, MaxEntities)
    /\ m_args \in {[a EXCEPT !.logLevel = l] :
                      a \in {b \in ArgsSet : b.scale = 1
                                             /\ b.outputFile \in OutputFiles(b.outputGlb)},
                      l \in LogLevels}
    /\ pc = "load"
    /\ nextEntity = 1
    /\ rootChildren = <<>>
    /\ m_materials = <<>>
    /\ gltf = NoFile
    /\ binFile = NoFile
    /\ glbFile = NoFile
    /\ jsonString = NoData
    /\ binaryData = NoData
    /\ geomData = EmptyGeometryData
    /\ result = "none"
    /\ argv = CommandLineFor(m_args)
    /\ exitCode = "none"
    /\ log = <<>>
    /\ previous = NoFile

SpecFault == InitFault /\ [][Next]_vars

-----------------------------------------------------------------------------
(* The material registry on its own: the resolve calls ExtractGeometricItems *)
(* makes for the geometric items of one object, one call per step.          *)

MaxCalls == 4    \* resolve calls in a run

Blue == [m_color_rgba |-> <<0, 0, 10, 5, 7>>]

MaterialItemLib ==
    {ItemTri, ItemQuadOpen, ItemEmpty, ItemNested,
     Item(<<>>, <<>>, <<Blue, Red>>, <<>>)}

InitMat ==
    /\ mapEntities \in {<<Shape("Wall", "g4", Identity, items, <<>>)>> :
                            items \in SeqsUpTo(MaterialItemLib, MaxCalls)}
    /\ m_args \in {a \in ArgsSet : a.scale = 1 /\ ~a.outputGlb
                                   /\ a.outputFile \in OutputFiles(FALSE)}
    /\ pc = "resolve"
    /\ nextEntity = 1
    /\ rootChildren = <<>>
    /\ m_materials = <<>>
    /\ gltf = NoFile
    /\ binFile = NoFile
    /\ glbFile = NoFile
    /\ jsonString = NoData
    /\ binaryData = NoData
    /\ geomData = EmptyGeometryData
    /\ result = "none"
    /\ argv = CommandLineFor(m_args)
    /\ exitCode = "none"
    /\ log = <<>>
    /\ previous = NoFile

\* GeometryData geomData; geomData.materialId = ExtractMaterialFromItem(item, node);
\* for item number nextEntity of the object
ExtractMaterialCall ==
    /\ pc = "resolve"
    /\ nextEntity <= Len(mapEntities[1].items)
    /\ LET resolved == ExtractMaterialFromItem(mapEntities[1].items[nextEntity],
                                               m_materials)
       IN  /\ m_materials' = resolved.materials
           /\ geomData' = [EmptyGeometryData EXCEPT !.materialId = resolved.id]
    /\ nextEntity' = nextEntity + 1
    /\ UNCHANGED <<argv, exitCode, log, previous, mapEntities, m_args, pc, rootChildren,
                   gltf, binFile, glbFile, jsonString, binaryData, result>>

NextMat == ExtractMaterialCall

SpecMat == InitMat /\ [][NextMat]_vars

-----------------------------------------------------------------------------
(* Convert() called a second time on the same converter object.  The       *)
(* members keep what the first call left in them: nothing in Convert()     *)
(* resets m_rootNode->children or m_materials.  The geometry converter is  *)
(* taken to hand over the same shape data again.                           *)

InitAgain ==
    /\ mapEntities \in SeqsUpTo({ShapeTri, ShapeEmpty, ShapeNested}, MaxEntities)
    /\ m_args \in {a \in ArgsSet : a.outputFile \in OutputFiles(a.outputGlb)}
    /\ pc = "load"
    /\ nextEntity = 1
    /\ rootChildren = <<>>
    /\ m_materials = <<>>
    /\ gltf = NoFile
    /\ binFile = NoFile
    /\ glbFile = NoFile
    /\ jsonString = NoData
    /\ binaryData = NoData
    /\ geomData = EmptyGeometryData
    /\ result = "none"
    /\ argv = CommandLineFor(m_args)
    /\ exitCode = "none"
    /\ log = <<>>
    /\ previous = NoFile

\* the caller keeps what the first call returned and wrote, and calls again
ConvertAgain ==
    /\ pc = "done"
    /\ previous = NoFile
    /\ previous' = [exists |-> TRUE, result |-> result, gltf |-> gltf,
                    binFile |-> binFile, glbFile |-> glbFile, binaryData |-> binaryData]
    /\ pc' = "load"
    /\ nextEntity' = 1
    /\ result' = "none"
    /\ UNCHANGED <<argv, exitCode, log, mapEntities, m_args, rootChildren, m_materials,
                   gltf, binFile, glbFile, jsonString, binaryData, geomData>>

NextAgain ==
    \/ LoadIFCFile
    \/ ConvertGeometry
    \/ ExtractEntity
    \/ ExtractGeometryDataReturn
    \/ WriteGltfFile
    \/ WriteGlbFile
    \/ GlbHeaderStep
    \/ GlbJsonChunkStep
    \/ GlbBinaryChunkStep
    \/ GlbClose
    \/ ConvertAgain

SpecAgain == InitAgain /\ [][NextAgain]_vars

-----------------------------------------------------------------------------
(* Convert() with other output paths.  ValidateArgs accepts every          *)
(* non-empty output path, whatever its extension or separators.            *)

OutputPaths(outputGlb) ==
    IF outputGlb THEN OutputFiles(TRUE)
    ELSE OutputFiles(FALSE)
         \cup { <<"m", ".", "g", "l", "t", "f">>,
                <<"o", "u", "t">>,
                <<"d", ".", "1", "/", "o", "u", "t">>,
                <<"a", "\\", "c", ".", "g", "l", "t", "f">>,
                <<"a", "/", "b", "\\", "c", ".", "g", "l", "t", "f">>,
                <<"a", "/", "m", ".", "t", "a", "r", ".", "g", "z">> }

InitPath ==
    /\ mapEntities \in SeqsUpTo({ShapeTri, ShapeEmpty}, MaxEntities)
    /\ \E g \in BOOLEAN : \E f \in OutputPaths(g), s \in Scales :
          m_args = [inputFile |-> "in.ifc", outputFile |-> f, scale |-> s,
                    logLevel |-> 1, outputGlb |-> g]
    /\ pc = "load"
    /\ nextEntity = 1
    /\ rootChildren = <<>>
    /\ m_materials = <<>>
    /\ gltf = NoFile
    /\ binFile = NoFile
    /\ glbFile = NoFile
    /\ jsonString = NoData
    /\ binaryData = NoData
    /\ geomData = EmptyGeometryData
    /\ result = "none"
    /\ argv = <<"-i", "in.ifc">>
    /\ exitCode = "none"
    /\ log = <<>>
    /\ previous = NoFile

SpecPath == InitPath /\ [][Next]_vars

-----------------------------------------------------------------------------
(* Convert() on scenes placed far from the origin, as models given in      *)
(* millimetres or in map coordinates are.                                   *)

FaceFar ==
    [n_edges |-> 3,
     loop |-> <<<<1234567, 0, 0>>, <<1234568, 0, 0>>, <<1234567, 1, 0>>>>,
     N |-> <<0, 0, 1>>]

ItemFar == Item(<<MeshSetOf(<<FaceFar>>)>>, <<>>, <<>>, <<>>)

ShapeFar == Shape("Far", "g9", Identity, <<ItemFar>>, <<>>)

InitBounds ==
    /\ mapEntities \in SeqsUpTo({ShapeTri, ShapeQuad, ShapeFar}, MaxEntities)
    /\ m_args \in {a \in ArgsSet : a.outputFile \in OutputFiles(a.outputGlb)}
    /\ pc = "load"
    /\ nextEntity = 1
    /\ rootChildren = <<>>
    /\ m_materials = <<>>
    /\ gltf = NoFile
    /\ binFile = NoFile
    /\ glbFile = NoFile
    /\ jsonString = NoData
    /\ binaryData = NoData
    /\ geomData = EmptyGeometryData
    /\ result = "none"
    /\ argv = CommandLineFor(m_args)
    /\ exitCode = "none"
    /\ log = <<>>
    /\ previous = NoFile

SpecBounds == InitBounds /\ [][Next]_vars

-----------------------------------------------------------------------------
(* The names written into the JSON text.  A name is a sequence of          *)
(* characters, as a path is; each writer puts the characters of the name   *)
(* between two double quotes as they are.                                  *)

MaxNameLen == 3

\* a letter, the letter n, a double quote, a backslash and a line feed
NameChars == {"a", "n", "\"", "\\", "\n"}

Names == SeqsUpTo(NameChars, MaxNameLen) \ {<<>>}

\* file << "\"" << node->name << "\""
WriteNodeName(name) == <<"\"">> \o name \o <<"\"">>

\* file << "\"" << node->name << "_Mesh\""
WriteMeshName(name) == <<"\"">> \o name \o <<"_", "M", "e", "s", "h", "\"">>

\* file << "\"" << binFileNameOnly << "\""
WriteUri(outputFile) == <<"\"">> \o BinFileNameOnly(outputFile) \o <<"\"">>

InitName ==
    /\ mapEntities = <<>>
    /\ m_args \in {a \in ArgsSet : a.scale = 1 /\ ~a.outputGlb
                                   /\ a.outputFile \in OutputFiles(FALSE)}
    /\ pc = "name"
    /\ nextEntity = 1
    /\ rootChildren = <<>>
    /\ m_materials = <<>>
    /\ gltf = NoFile
    /\ binFile = NoFile
    /\ glbFile = NoFile
    /\ jsonString = NoData
    /\ binaryData = NoData
    /\ geomData = EmptyGeometryData
    /\ result = "none"
    /\ argv = CommandLineFor(m_args)
    /\ exitCode = "none"
    /\ log = <<>>
    /\ previous = NoFile

\* one name written: previous holds the name and the characters written
WriteNameCall ==
    /\ pc = "name"
    /\ \E name \in Names :
          \/ previous' = [exists |-> TRUE, key |-> "nodes.name", name |-> name,
                          written |-> WriteNodeName(name)]
          \/ previous' = [exists |-> TRUE, key |-> "meshes.name",
                          name |-> name \o <<"_", "M", "e", "s", "h">>,
                          written |-> WriteMeshName(name)]
          \/ LET outputFile == name \o <<".", "g", "l", "t", "f">>
             IN  previous' = [exists |-> TRUE, key |-> "buffers.uri",
                              name |-> BinFileNameOnly(outputFile),
                              written |-> WriteUri(outputFile)]
    /\ pc' = "named"
    /\ UNCHANGED <<argv, exitCode, log, mapEntities, m_args, nextEntity, rootChildren,
                   m_materials, gltf, binFile, glbFile, jsonString, binaryData, geomData,
                   result>>

NextName == WriteNameCall

SpecName == InitName /\ [][NextName]_vars

-----------------------------------------------------------------------------
(* main() as a whole: the command line, Convert(), the exit status *)

InitMain ==
    /\ mapEntities \in {<<ShapeTri>>, <<ShapeEmpty, ShapeNested>>}
    /\ argv \in CommandLines
    /\ m_args = DefaultArgs
    /\ pc = "main"
    /\ nextEntity = 1
    /\ rootChildren = <<>>
    /\ m_materials = <<>>
    /\ gltf = NoFile
    /\ binFile = NoFile
    /\ glbFile = NoFile
    /\ jsonString = NoData
    /\ binaryData = NoData
    /\ geomData = EmptyGeometryData
    /\ result = "none"
    /\ exitCode = "none"
    /\ log = <<>>
    /\ previous = NoFile

\* main() up to the construction of the converter
Main ==
    /\ pc = "main"
    /\ LET parsed == ParseCommandLine(argv)
           args == WithDefaults(parsed.args)
       IN  IF parsed.outcome = "help"
           THEN pc' = "exit" /\ exitCode' = 0 /\ UNCHANGED <<m_args, log>>
           ELSE IF parsed.outcome = "exception"
           THEN /\ pc' = "exit"
                /\ exitCode' = 1
                /\ log' = Cerr(log, "Fatal error: ")
                /\ UNCHANGED m_args
           ELSE IF ValidateArgs(args) # ""
           THEN /\ pc' = "exit"
                /\ exitCode' = 1
                /\ log' = Cerr(log, ValidateArgs(args))
                /\ UNCHANGED m_args
           ELSE /\ m_args' = args
                /\ pc' = "load"
                /\ UNCHANGED <<exitCode, log>>
    /\ UNCHANGED <<argv, previous, mapEntities, nextEntity, rootChildren, m_materials, gltf,
                   binFile, glbFile, jsonString, binaryData, geomData, result>>

\* main() after Convert() returned
MainReturn ==
    /\ pc = "done"
    /\ pc' = "exit"
    /\ IF result = "true"
       THEN exitCode' = 0 /\ log' = log
       ELSE exitCode' = 1 /\ log' = Cerr(log, "Conversion failed!")
    /\ UNCHANGED <<argv, previous, mapEntities, m_args, nextEntity, rootChildren,
                   m_materials, gltf, binFile, glbFile, jsonString, binaryData, geomData,
                   result>>

NextMain ==
    \/ Main
    \/ LoadIFCFile
    \/ ConvertGeometry
    \/ ExtractEntity
    \/ ExtractGeometryDataReturn
    \/ WriteGltfFile
    \/ WriteGlbFile
    \/ GlbHeaderStep
    \/ GlbJsonChunkStep
    \/ GlbBinaryChunkStep
    \/ GlbClose
    \/ MainReturn

SpecMain == InitMain /\ [][NextMain]_vars

-----------------------------------------------------------------------------
(* ExtractMeshSet on its own: any sequence of calls on one GeometryData *)

InitMesh ==
    /\ mapEntities = <<>>
    /\ m_args \in {a \in ArgsSet : a.scale = 1 /\ ~a.outputGlb
                                   /\ a.outputFile \in OutputFiles(FALSE)}
    /\ pc = "meshset"
    /\ nextEntity = 1
    /\ rootChildren = <<>>
    /\ m_materials = <<>>
    /\ gltf = NoFile
    /\ binFile = NoFile
    /\ glbFile = NoFile
    /\ jsonString = NoData
    /\ binaryData = NoData
    /\ geomData = EmptyGeometryData
    /\ result = "none"
    /\ argv = CommandLineFor(m_args)
    /\ exitCode = "none"
    /\ log = <<>>
    /\ previous = NoFile

ExtractMeshSetCall ==
    /\ pc = "meshset"
    /\ Len(geomData.indices) \div 3 <= MaxTriangles
    /\ \E meshset \in MeshSetLib, localTransform \in Transforms :
          /\ geomData' = ExtractMeshSet(meshset, localTransform, geomData)
          /\ previous' = [exists |-> TRUE, meshset |-> meshset,
                          localTransform |-> localTransform]
    /\ UNCHANGED <<argv, exitCode, log, mapEntities, m_args, pc, nextEntity, rootChildren, m_materials, gltf,
                   binFile, glbFile, jsonString, binaryData, result>>

NextMesh == ExtractMeshSetCall

SpecMesh == InitMesh /\ [][NextMesh]_vars

-----------------------------------------------------------------------------
(* The GLB writers on their own: WriteGlbFile from its first write on, for *)
(* a JSON text and a blob of given lengths.                                *)

\* The JSON text is that of the scene without nodes, lengthened by up to
\* MaxJsonLen characters (of node names, of digits).
JsonLens == {SizeOf(Len(WriteGltfJsonForGlb(<<>>).text) + n) : n \in 0..MaxJsonLen}

\* The blobs WriteGlbBinaryChunk may be handed: a few short ones, and the blob of
\* a scene of HugeTriangles (+1, +2) triangles, of 84 bytes (21 words) each.
BinLens ==
    {SizeOf(n) : n \in 0..MaxBinLen}
        \cup {[w |-> 21 * t, b |-> 0] : t \in HugeTriangles..(HugeTriangles + 2)}

InitGlb ==
    /\ mapEntities = <<>>
    /\ m_args \in {a \in ArgsSet : a.scale = 1 /\ a.outputGlb
                                   /\ a.outputFile \in OutputFiles(TRUE)}
    /\ pc = "glb_header"
    /\ nextEntity = 1
    /\ rootChildren = <<>>
    /\ m_materials = <<>>
    /\ gltf = NoFile
    /\ binFile = NoFile
    /\ glbFile = [exists |-> TRUE, writes |-> <<>>]
    /\ jsonString \in {[len |-> l, data |-> "(JSON text)"] : l \in JsonLens}
    /\ binaryData \in {[len |-> l, data |-> "(blob)"] : l \in BinLens}
    /\ geomData = EmptyGeometryData
    /\ result = "none"
    /\ argv = CommandLineFor(m_args)
    /\ exitCode = "none"
    /\ log = <<>>
    /\ previous = NoFile

NextGlb ==
    \/ GlbHeaderStep
    \/ GlbJsonChunkStep
    \/ GlbBinaryChunkStep
    \/ GlbClose

SpecGlb == InitGlb /\ [][NextGlb]_vars


-----------------------------------------------------------------------------
(* Properties.  Doc is the JSON document emitted, Records the retained     *)
(* GeometryData of the scene in global traversal order.                    *)

Doc == gltf.value

RECURSIVE RecordsBefore(_, _)
RecordsBefore(children, k) ==
    IF k <= 1 THEN 0
    ELSE Len(children[k - 1].geometries) + RecordsBefore(children, k - 1)

RecordCount == RecordsBefore(rootChildren, Len(rootChildren) + 1)

\* C1: the primitive of record g (global traversal order) has POSITION 3g,
\* NORMAL 3g+1 and indices 3g+2, accessor j references bufferView j, every
\* index referenced is in range, and the three accessors of record g carry
\* the counts of that record's own arrays; in sidecar and in GLB mode.
C1_AccessorNumbering ==
    gltf.exists =>
        /\ Len(Doc.meshes) = Len(rootChildren)
        /\ \A k \in 1..Len(rootChildren) :
              /\ Len(Doc.meshes[k].primitives) = Len(rootChildren[k].geometries)
              /\ \A i \in 1..Len(rootChildren[k].geometries) :
                    LET g == RecordsBefore(rootChildren, k) + i - 1
                        p == Doc.meshes[k].primitives[i]
                        rec == rootChildren[k].geometries[i]
                    IN  /\ p.attributes.POSITION = 3 * g
                        /\ p.attributes.NORMAL = 3 * g + 1
                        /\ p.indices = 3 * g + 2
                        /\ p.indices < Len(Doc.accessors)
                        /\ Doc.accessors[3 * g + 1].count * 3 = Len(rec.vertices)
                        /\ Doc.accessors[3 * g + 1].min = rec.minBounds
                        /\ Doc.accessors[3 * g + 1].max = rec.maxBounds
                        /\ Doc.accessors[3 * g + 2].count * 3 = Len(rec.normals)
                        /\ Doc.accessors[3 * g + 3].count = Len(rec.indices)
        /\ \A j \in 1..Len(Doc.accessors) :
              /\ Doc.accessors[j].bufferView = j - 1
              /\ Doc.accessors[j].bufferView < Len(Doc.bufferViews)

\* a GLB document of two meshes, the first of two primitives
C1_Witness ==
    /\ gltf.exists
    /\ m_args.outputGlb
    /\ Len(Doc.meshes) = 2
    /\ Len(Doc.meshes[1].primitives) = 2
    /\ Doc.meshes[2].primitives[1].attributes.POSITION = 6

\* the bytes of the blob written: the sidecar file, or the local of WriteGlbFile
BlobWritten == binFile.exists \/ (m_args.outputGlb /\ gltf.exists)
BlobLength == IF binFile.exists THEN Len(binFile.bytes) ELSE Len(binaryData.data)

RECURSIVE SumByteLengths(_, _)
SumByteLengths(views, n) ==
    IF n = 0 THEN 0 ELSE views[n].byteLength + SumByteLengths(views, n - 1)

\* C2: the first bufferView starts at 0, every later one where the views
\* before it end, and the last one ends at buffers[0].byteLength, which is
\* the number of bytes of the blob.
C2_ContiguousViews ==
    gltf.exists =>
        LET views == Doc.bufferViews
        IN  /\ \A j \in 1..Len(views) :
                  views[j].byteOffset = SumByteLengths(views, j - 1)
            /\ Doc.buffers[1].byteLength = SumByteLengths(views, Len(views))
            /\ BlobWritten => Doc.buffers[1].byteLength = BlobLength

C2_Witness ==
    /\ gltf.exists
    /\ binFile.exists
    /\ Len(Doc.bufferViews) = 6
    /\ Doc.bufferViews[6].byteOffset > Doc.bufferViews[4].byteOffset
    /\ Doc.bufferViews[6].byteOffset + Doc.bufferViews[6].byteLength = Len(binFile.bytes)

ComponentSize(componentType) == IF componentType \in {5126, 5125} THEN 4 ELSE 0
ComponentsPerElement(type) == IF type = "VEC3" THEN 3 ELSE IF type = "SCALAR" THEN 1 ELSE 0

\* C3: the byteLength of an accessor's bufferView is count x componentSize x
\* componentsPerElement: 12 x count for position and normal, 4 x count for indices.
C3_ViewLengthMatchesAccessor ==
    gltf.exists =>
        \A j \in 1..Len(Doc.accessors) :
            LET a == Doc.accessors[j]
                v == Doc.bufferViews[a.bufferView + 1]
            IN  /\ v.byteLength
                     = a.count * ComponentSize(a.componentType) * ComponentsPerElement(a.type)
                /\ v.byteLength = IF j % 3 = 0 THEN 4 * a.count ELSE 12 * a.count

C3_Witness ==
    /\ gltf.exists
    /\ Len(Doc.accessors) >= 3
    /\ Doc.accessors[1].count = 6
    /\ Doc.bufferViews[1].byteLength = 72
    /\ Doc.bufferViews[3].byteLength = 24

\* C4: accessors and bufferViews have 3 x R entries each, R the number of
\* GeometryData retained in the scene, every one of them non-empty; each record
\* contributes position, normal, index in that order.
C4_ThreePerRecord ==
    gltf.exists =>
        /\ \A k \in 1..Len(rootChildren) : \A i \in 1..Len(rootChildren[k].geometries) :
              rootChildren[k].geometries[i].vertices # <<>>
        /\ Len(Doc.accessors) = 3 * RecordCount
        /\ Len(Doc.bufferViews) = 3 * RecordCount
        /\ \A g \in 0..(RecordCount - 1) :
              /\ "min" \in DOMAIN Doc.accessors[3 * g + 1]
              /\ Doc.accessors[3 * g + 1].type = "VEC3"
              /\ Doc.accessors[3 * g + 1].componentType = 5126
              /\ "min" \notin DOMAIN Doc.accessors[3 * g + 2]
              /\ Doc.accessors[3 * g + 2].type = "VEC3"
              /\ Doc.accessors[3 * g + 2].componentType = 5126
              /\ Doc.accessors[3 * g + 3].type = "SCALAR"
              /\ Doc.accessors[3 * g + 3].componentType = 5125
              /\ Doc.bufferViews[3 * g + 1].target = 34962
              /\ Doc.bufferViews[3 * g + 2].target = 34962
              /\ Doc.bufferViews[3 * g + 3].target = 34963

C4_Witness ==
    /\ gltf.exists
    /\ m_args.outputGlb
    /\ Len(rootChildren) = 2
    /\ RecordCount = 4
    /\ Len(Doc.accessors) = 12
    /\ Len(Doc.bufferViews) = 12


\* the smallest multiple of 4 that is >= x
ExactAlign(x) == [w |-> x.w + (IF x.b = 0 THEN 0 ELSE 1), b |-> 0]

Writes == glbFile.writes

\* C5: the total length field is 12 + 8 + alignedJsonLength + (0 for an empty
\* blob, else 8 + alignedBinaryLength), each aligned length the smallest
\* multiple of 4 >= the length; the chunk length fields are multiples of 4;
\* the JSON chunk is padded with 0x20, the binary chunk with 0x00, by at most
\* 3 bytes each.
C5_GlbLengths ==
    glbFile.exists =>
        /\ Len(Writes) >= 3 =>
              Writes[3].val =
                  SzAdd(SizeOf(12 + 8),
                        SzAdd(ExactAlign(jsonString.len),
                              IF binaryData.len = SizeOf(0) THEN SizeOf(0)
                              ELSE SzAdd(SizeOf(8), ExactAlign(binaryData.len))))
        /\ Len(Writes) >= 7 =>
              /\ Writes[4].val = ExactAlign(jsonString.len)
              /\ Writes[4].val.b = 0
              /\ Writes[7].kind = "pad" /\ Writes[7].byte = 32
              /\ SzLess(Writes[7].count, SizeOf(4))
        /\ Len(Writes) >= 11 =>
              /\ Writes[8].val = ExactAlign(binaryData.len)
              /\ Writes[8].val.b = 0
              /\ Writes[11].kind = "pad" /\ Writes[11].byte = 0
              /\ SzLess(Writes[11].count, SizeOf(4))

SegBytes(seg) ==
    IF seg.kind = "u32" THEN SizeOf(4)
    ELSE IF seg.kind = "data" THEN seg.len
    ELSE seg.count

RECURSIVE BytesWritten(_, _)
BytesWritten(writes, n) ==
    IF n = 0 THEN SizeOf(0) ELSE SzAdd(BytesWritten(writes, n - 1), SegBytes(writes[n]))

Kinds(writes) == [i \in 1..Len(writes) |-> writes[i].kind]

HeaderKinds == <<"u32", "u32", "u32">>
ChunkKinds == <<"u32", "u32", "data", "pad">>

\* C6: a GLB file is the 12-byte header, then the JSON chunk, then the binary
\* chunk, the latter if and only if the blob is non-empty; the bytes written
\* are as many as the total length field says, and the payload of each chunk
\* (data and padding) is as long as its chunk length field says.
C6_GlbLayout ==
    glbFile.exists =>
        /\ pc = "glb_header" => Writes = <<>>
        /\ pc = "glb_json" => Kinds(Writes) = HeaderKinds
        /\ pc = "glb_binary" => Kinds(Writes) = HeaderKinds \o ChunkKinds
        /\ pc \in {"glb_close", "done"} =>
              /\ Kinds(Writes) = HeaderKinds \o ChunkKinds
                                 \o (IF binaryData.len # SizeOf(0) THEN ChunkKinds ELSE <<>>)
              /\ Writes[1].val = SizeOf(GlbMagic)
              /\ Writes[2].val = SizeOf(GlbVersion)
              /\ Writes[5].val = SizeOf(GlbJsonType)
              /\ Writes[6].data = jsonString.data
              /\ SzAdd(Writes[6].len, Writes[7].count) = Writes[4].val
              /\ Len(Writes) > 7 =>
                    /\ Writes[9].val = SizeOf(GlbBinaryType)
                    /\ Writes[10].data = binaryData.data
                    /\ SzAdd(Writes[10].len, Writes[11].count) = Writes[8].val
              /\ BytesWritten(Writes, Len(Writes)) = Writes[3].val

RecordBytes(rec) ==
    FloatArrayBytes(rec.vertices) \o FloatArrayBytes(rec.normals)
        \o IndexArrayBytes(rec.indices)

ExpectedBlob ==
    Flatten([k \in 1..Len(rootChildren) |->
                Flatten([i \in 1..Len(rootChildren[k].geometries) |->
                            RecordBytes(rootChildren[k].geometries[i])])])

Blob == IF binFile.exists THEN binFile.bytes ELSE binaryData.data

ViewBytes(view) == SubSeq(Blob, view.byteOffset + 1, view.byteOffset + view.byteLength)

\* C7: the blob is the concatenation, over the retained records in global
\* traversal order, of vertices, normals, indices, without padding; the sidecar
\* writer and the GLB collector produce the same bytes for the same scene, the
\* GLB binary chunk carries them, and the byte range of each bufferView holds
\* exactly the array its accessor describes.
C7_BlobIsConcatenation ==
    /\ binFile.exists =>
          /\ binFile.bytes = ExpectedBlob
          /\ binFile.bytes = CollectBinaryData(GeometriesInOrder(rootChildren), <<>>)
    /\ (m_args.outputGlb /\ gltf.exists) =>
          /\ binaryData.data = ExpectedBlob
          /\ binaryData.data = WriteBinaryData(GeometriesInOrder(rootChildren))
          /\ binaryData.len = SizeOf(Len(binaryData.data))
          /\ Len(Writes) > 7 => Writes[10].data = ExpectedBlob
    /\ (gltf.exists /\ BlobWritten) =>
          \A k \in 1..Len(rootChildren) : \A i \in 1..Len(rootChildren[k].geometries) :
              LET g == RecordsBefore(rootChildren, k) + i - 1
                  rec == rootChildren[k].geometries[i]
              IN  /\ ViewBytes(Doc.bufferViews[3 * g + 1]) = FloatArrayBytes(rec.vertices)
                  /\ ViewBytes(Doc.bufferViews[3 * g + 2]) = FloatArrayBytes(rec.normals)
                  /\ ViewBytes(Doc.bufferViews[3 * g + 3]) = IndexArrayBytes(rec.indices)

\* a sidecar file of three records whose first float is 1.0f (00 00 80 3F)
C7_Witness ==
    /\ binFile.exists
    /\ RecordCount = 3
    /\ Len(binFile.bytes) > 3 * 84
    /\ SubSeq(binFile.bytes, 1, 4) = <<0, 0, 128, 63>>

\* C8: after any sequence of triangle appends the record has as many normals
\* as vertices, two texture coordinates for three vertex floats, indices in
\* triples, and indices[k] = k: three fresh vertices per triangle, none shared,
\* every index below the vertex count.
C8_RecordArrays ==
    /\ Len(geomData.vertices) = Len(geomData.normals)
    /\ 2 * Len(geomData.vertices) = 3 * Len(geomData.texCoords)
    /\ Len(geomData.vertices) % 9 = 0
    /\ Len(geomData.indices) % 3 = 0
    /\ Len(geomData.indices) = Len(geomData.vertices) \div 3
    /\ \A k \in 1..Len(geomData.indices) :
          /\ geomData.indices[k] = k - 1
          /\ geomData.indices[k] < Len(geomData.vertices) \div 3

\* a record of five triangles, built by more than one call
C8_Witness ==
    /\ pc = "meshset"
    /\ Len(geomData.indices) = 15
    /\ geomData.indices[15] = 14

\* C9: nodes, meshes and scenes[0].nodes have the length N of the root's
\* children; scenes[0].nodes is 0..N-1; nodes[i] carries mesh i, and meshes[i]
\* is built from node i's own records.
C9_NodeMeshOneToOne ==
    gltf.exists =>
        LET N == Len(rootChildren)
        IN  /\ Len(Doc.nodes) = N
            /\ Len(Doc.meshes) = N
            /\ Len(Doc.scenes) = 1
            /\ Doc.scenes[1].nodes = [i \in 1..N |-> i - 1]
            /\ \A i \in 1..N :
                  /\ "mesh" \in DOMAIN Doc.nodes[i]
                  /\ Doc.nodes[i].mesh = i - 1
                  /\ Doc.nodes[i].mesh < Len(Doc.meshes)
                  /\ Doc.nodes[i].name = rootChildren[i].name
                  /\ Doc.meshes[i].name = rootChildren[i].name \o "_Mesh"
                  /\ Len(Doc.meshes[i].primitives) = Len(rootChildren[i].geometries)
                  /\ \A j \in 1..Len(rootChildren[i].geometries) :
                        LET a == Doc.accessors[Doc.meshes[i].primitives[j].attributes.POSITION + 1]
                            rec == rootChildren[i].geometries[j]
                        IN  /\ a.count * 3 = Len(rec.vertices)
                            /\ a.min = rec.minBounds
                            /\ a.max = rec.maxBounds

\* a document of two nodes, the second with mesh 1
C9_Witness ==
    /\ gltf.exists
    /\ Len(mapEntities) = 2
    /\ Len(Doc.nodes) = 2
    /\ Doc.nodes[2].mesh = 1
    /\ Doc.nodes[1].name # Doc.nodes[2].name
    /\ Doc.scenes[1].nodes = <<0, 1>>

\* What the input promises, counted on the shape-data tree itself.
FaceTriangles(face) ==
    IF face = NullPtr THEN 0 ELSE IF face.n_edges < 3 THEN 0 ELSE face.n_edges - 2

RECURSIVE SumOver(_)
SumOver(numbers) == IF numbers = <<>> THEN 0 ELSE Head(numbers) + SumOver(Tail(numbers))

MeshTriangles(mesh) ==
    IF mesh = NullPtr THEN 0
    ELSE SumOver([f \in 1..Len(mesh.faces) |-> FaceTriangles(mesh.faces[f])])

MeshSetTriangles(meshset) ==
    IF meshset = NullPtr THEN 0
    ELSE SumOver([m \in 1..Len(meshset.meshes) |-> MeshTriangles(meshset.meshes[m])])

ItemTriangles(item) ==
    SumOver([m \in 1..Len(item.m_meshsets) |-> MeshSetTriangles(item.m_meshsets[m])])
    + SumOver([m \in 1..Len(item.m_meshsets_open) |->
                  MeshSetTriangles(item.m_meshsets_open[m])])

\* the items of an item's subtree that have at least one triangle
RECURSIVE ItemsWithGeometry(_)
ItemsWithGeometry(item) ==
    (IF ItemTriangles(item) > 0 THEN 1 ELSE 0)
    + SumOver([c \in 1..Len(item.m_child_items) |-> ItemsWithGeometry(item.m_child_items[c])])

RECURSIVE ShapeItemsWithGeometry(_)
ShapeItemsWithGeometry(shape) ==
    SumOver([c \in 1..Len(shape.items) |-> ItemsWithGeometry(shape.items[c])])
    + SumOver([c \in 1..Len(shape.children) |-> ShapeItemsWithGeometry(shape.children[c])])

\* the names of the entities 1..n that are to become nodes
RECURSIVE ExpectedNodeNames(_)
ExpectedNodeNames(n) ==
    IF n = 0 THEN <<>>
    ELSE LET shape == mapEntities[n]
         IN  ExpectedNodeNames(n - 1)
             \o (IF shape = NullPtr THEN <<>>
                 ELSE IF shape.expired \/ ShapeItemsWithGeometry(shape) = 0 THEN <<>>
                 ELSE <<GetEntityName(shape.entity)>>)

\* C10: a node is appended to the root's children only if it owns a record
\* once its subtree is merged, and a record is retained only if it has a
\* vertex: an object without faces and without descendant geometry is neither
\* in nodes nor in scenes[0].nodes, and every emitted node owns a record with
\* a triangle.
C10_OnlyNodesWithGeometry ==
    /\ \A k \in 1..Len(rootChildren) :
          /\ rootChildren[k].geometries # <<>>
          /\ \A i \in 1..Len(rootChildren[k].geometries) :
                /\ Len(rootChildren[k].geometries[i].vertices) >= 9
                /\ Len(rootChildren[k].geometries[i].indices) >= 3
    /\ pc \in {"load", "convert"} => rootChildren = <<>>
    /\ pc \notin {"load", "convert", "meshset"} =>
          [k \in 1..Len(rootChildren) |-> rootChildren[k].name]
              = ExpectedNodeNames(nextEntity - 1)
    /\ gltf.exists =>
          /\ [k \in 1..Len(Doc.nodes) |-> Doc.nodes[k].name]
                = ExpectedNodeNames(Len(mapEntities))
          /\ Len(Doc.scenes[1].nodes) = Len(ExpectedNodeNames(Len(mapEntities)))

\* an object without faces (and a child without faces) left out, its sibling kept
C10_Witness ==
    /\ gltf.exists
    /\ Len(mapEntities) = 2
    /\ mapEntities[1] # NullPtr
    /\ mapEntities[1] = ShapeBare
    /\ Len(Doc.nodes) = 1
    /\ Doc.scenes[1].nodes = <<0>>
    /\ Doc.nodes[1].name # "Site"

-----------------------------------------------------------------------------
(* Error handling and the command line *)

\* The output files of the selected mode have all been written.
OutputsWritten ==
    IF m_args.outputGlb
    THEN glbFile # NoFile /\ Len(glbFile.writes) > 0
    ELSE gltf # NoFile /\ binFile # NoFile

\* The [ERROR] lines printed so far.
Errors == SelectSeq(log, LAMBDA line : line.tag = "[ERROR]")

\* C11: if a destination file (.gltf, sidecar .bin, .glb) cannot be opened,
\* the failure is reported with an error line, Convert returns false and
\* the exit status is not zero; a zero exit status after a conversion
\* implies that all output files of the selected mode were written.
C11_OutputFailureIsFatal ==
    /\ (pc \in {"done", "exit"} /\ result = "true") => OutputsWritten
    /\ (pc = "exit" /\ result # "none" /\ exitCode = 0) => OutputsWritten
    /\ (pc = "exit" /\ result # "none" /\ ~OutputsWritten) =>
            exitCode = 1 /\ result = "false" /\ Errors # <<>>

\* The output files, and the steps of Convert() before the output step.
Files == <<gltf, binFile, glbFile>>
PreOutput == {"load", "convert", "extract"}

\* C12: Convert runs load, geometry conversion, extraction, output in that
\* order; a step starts only if the step before it succeeded (it logged no
\* error); a step before the output step that fails makes Convert return
\* false with no output file opened; Convert returns true only from the
\* output step, with no error logged and the .gltf or .glb file opened, and
\* false only with an error logged.
C12_StepsInOrder ==
    [][ /\ pc' # pc => <<pc, pc'>> \in
               {<<"load", "convert">>, <<"convert", "extract">>, <<"extract", "write">>,
                <<"load", "done">>, <<"convert", "done">>, <<"extract", "done">>,
                <<"write", "done">>, <<"write", "glb_header">>,
                <<"glb_header", "glb_json">>, <<"glb_json", "glb_binary">>,
                <<"glb_binary", "glb_close">>, <<"glb_close", "done">>}
        /\ pc \in PreOutput =>
               /\ Files = <<NoFile, NoFile, NoFile>> /\ Files' = Files
               /\ pc' \notin {pc, "done"} => Errors' = Errors /\ result' = "none"
               /\ pc' = "done" => result' = "false" /\ Len(Errors') > Len(Errors)
        /\ (result' = "true" /\ result # "true") =>
               /\ pc \in {"write", "glb_close"} /\ Errors' = <<>>
               /\ IF m_args.outputGlb THEN glbFile' # NoFile ELSE gltf' # NoFile
        /\ (result' = "false" /\ result # "false") =>
               /\ Len(Errors') > Len(Errors)
               /\ pc = "write" => gltf' = gltf /\ glbFile' = glbFile
      ]_vars

\* Convert() has returned false from the extraction of the second entity:
\* nothing was opened.
C12_Witness ==
    /\ pc = "done" /\ result = "false"
    /\ Files = <<NoFile, NoFile, NoFile>>
    /\ Len(Errors) = 2 /\ Errors[2].message = "Failed to extract geometry data"
    /\ nextEntity = 2

\* What the command line gives for an option: the string after its last
\* occurrence, if any.
Given(names) ==
    LET at == {i \in 1..(Len(argv) - 1) : argv[i] \in names}
    IN  IF at = {} THEN [given |-> FALSE]
        ELSE [given |-> TRUE,
              value |-> argv[1 + CHOOSE i \in at : \A j \in at : j <= i]]

AsksForHelp == \E i \in 1..Len(argv) : argv[i] \in {"-h", "--help"}

\* A conversion step has run, or is about to.
ConversionStarted == pc # "main" /\ ~(pc = "exit" /\ result = "none")

\* C13: (for a command line that does not ask for help) conversion starts
\* only if the command line supplies an input path and an output path, a
\* scale > 0 or none, and a verbosity in {0, 1, 2} or none; any other command
\* line ends in exit status 1 before a conversion step; and the conversion
\* uses the values supplied (scale 1.0 and verbosity 1 when not supplied).
C13_CommandLineValidated ==
    LET input == Given({"-i", "--input"})
        output == Given({"-o", "--output"})
        scale == Given({"-s", "--scale"})
        level == Given({"-l", "--log"})
        Valid == /\ input.given /\ output.given
                 /\ scale.given => /\ scale.value \in DOMAIN Numbers
                                    /\ Numbers[scale.value] > 0
                 /\ level.given => /\ level.value \in DOMAIN Numbers
                                    /\ Numbers[level.value] \in 0..2
    IN  ~AsksForHelp =>
          /\ ConversionStarted => Valid
          /\ ConversionStarted =>
                /\ m_args.inputFile = input.value
                /\ m_args.outputFile = Chars[output.value]
                /\ m_args.scale = IF scale.given THEN Numbers[scale.value] ELSE 1
                /\ m_args.logLevel = IF level.given THEN Numbers[level.value] ELSE 1
                /\ m_args.outputGlb = (\E i \in 1..Len(argv) : argv[i] = "--glb")
          /\ (pc = "exit" /\ ~Valid) => exitCode = 1 /\ result = "none"

-----------------------------------------------------------------------------
(* Conversions to compare with: the nodes Convert() builds for a scene     *)
(* that raises no exception.                                               *)

RECURSIVE SceneFrom(_, _, _)
SceneFrom(entities, scale, acc) ==
    IF entities = <<>> THEN acc
    ELSE LET shapeData == Head(entities)
         IN  IF shapeData = NullPtr \/ shapeData.expired
             THEN SceneFrom(Tail(entities), scale, acc)
             ELSE LET ctx == ExtractShapeData(shapeData, scale,
                                 [geometries |-> <<>>, materials |-> acc.materials,
                                  log |-> <<>>, thrown |-> FALSE,
                                  name |-> GetEntityName(shapeData.entity),
                                  logLevel |-> 0])
                      node == [name |-> ctx.name, geometries |-> ctx.geometries]
                  IN  SceneFrom(Tail(entities), scale,
                                [nodes |-> IF node.geometries # <<>>
                                           THEN Append(acc.nodes, node) ELSE acc.nodes,
                                 materials |-> ctx.materials])

NodesOf(entities, scale) ==
    SceneFrom(entities, scale, [nodes |-> <<>>, materials |-> <<>>]).nodes

\* nodes without the material ids of their records
Blank(nodes) ==
    [k \in 1..Len(nodes) |->
        [nodes[k] EXCEPT !.geometries =
            [i \in 1..Len(@) |-> [@[i] EXCEPT !.materialId = ""]]]]

-----------------------------------------------------------------------------
(* Extraction failures *)

\* An exception leaves ExtractGeometricItems(item).
RECURSIVE ItemFails(_)
ItemFails(item) ==
    \/ item.fault = "meshset"
    \/ item.fault = "logdebug" /\ ItemTriangles(item) > 0
    \/ \E c \in 1..Len(item.m_child_items) : ItemFails(item.m_child_items[c])

\* The extraction of the shape-data object fails: the exception is raised by
\* its transform or its items (an exception of a descendant is the
\* descendant's failure).
ShapeFails(shape) ==
    \/ shape.fault = "transform"
    \/ \E i \in 1..Len(shape.items) : ItemFails(shape.items[i])

\* The list of objects without the failing ones and their descendants.
RECURSIVE Pruned(_)
Pruned(shapes) ==
    IF shapes = <<>> THEN <<>>
    ELSE LET shape == Head(shapes)
         IN  IF shape = NullPtr THEN Pruned(Tail(shapes))
             ELSE IF shape.expired \/ ShapeFails(shape) THEN Pruned(Tail(shapes))
             ELSE <<[shape EXCEPT !.children = Pruned(@)]>> \o Pruned(Tail(shapes))

\* The failing objects that are reached.
RECURSIVE FailCount(_)
FailCount(shapes) ==
    IF shapes = <<>> THEN 0
    ELSE LET shape == Head(shapes)
         IN  (IF shape = NullPtr THEN 0
              ELSE IF shape.expired THEN 0
              ELSE IF ShapeFails(shape) THEN 1
              ELSE FailCount(shape.children))
             + FailCount(Tail(shapes))

\* the warnings of ExtractShapeData
Warnings ==
    SelectSeq(log, LAMBDA line : /\ line.tag = "[WARNING]"
                                 /\ line.message # "Cannot create binary file: ")

ExtractionDone == nextEntity > Len(mapEntities)

\* C14: when the extraction of a shape-data object fails, a warning is logged
\* (if warnings are printed) and the nodes end with exactly the records they
\* would have had if the failing object and all its descendants were absent.
C14_FailingSubtreeSkipped ==
    ExtractionDone =>
        /\ m_args.logLevel >= 1 => Len(Warnings) = FailCount(mapEntities)
        /\ Blank(rootChildren) = Blank(NodesOf(Pruned(mapEntities), m_args.scale))

RECURSIVE IsSubseq(_, _)
IsSubseq(a, b) ==
    IF a = <<>> THEN TRUE
    ELSE IF b = <<>> THEN FALSE
    ELSE IF Head(a) = Head(b) THEN IsSubseq(Tail(a), Tail(b))
    ELSE IsSubseq(a, Tail(b))

\* Every expected node is among the nodes, in order, with all its records.
RECURSIVE NodesContain(_, _)
NodesContain(nodes, expected) ==
    IF expected = <<>> THEN TRUE
    ELSE IF nodes = <<>> THEN FALSE
    ELSE IF /\ Head(nodes).name = Head(expected).name
            /\ IsSubseq(Head(expected).geometries, Head(nodes).geometries)
         THEN NodesContain(Tail(nodes), Tail(expected))
         ELSE NodesContain(Tail(nodes), expected)

\* C15: an exception in the extraction of a shape-data object is not fatal:
\* the objects that do not fail and are not below a failing object (later
\* siblings, other top-level objects) are extracted with all their records,
\* the extraction step does not fail because of it, the output step runs, and
\* Convert returns false only if load, geometry conversion or the opening of
\* the output file failed (or the loop body failed outside ExtractShapeData).
C15_FailureIsIsolated ==
    /\ ExtractionDone =>
          NodesContain(Blank(rootChildren),
                       Blank(NodesOf(Pruned(mapEntities), m_args.scale)))
    /\ (ExtractionDone /\ mapEntities # <<>>) => pc \notin {"load", "convert"}
    /\ result = "false" =>
          \/ Errors[1].message \in {"IFC model is empty or invalid",
                                     "Error loading IFC file: ",
                                     "Error converting geometry: ",
                                     "Cannot open output file: "}
          \/ /\ Errors[1].message = "Error extracting geometry data: "
             /\ mapEntities[nextEntity].fault = "entity"
    /\ (pc = "done" /\ Errors = <<>>) => result = "true"

\* the first child of "Column" fails, its sibling and the next top-level object
\* are extracted, and Convert returns true
C15_Witness ==
    /\ pc = "done" /\ result = "true"
    /\ mapEntities = <<ShapeChildFails, ShapeTri>>
    /\ Len(Warnings) = 1
    /\ Len(rootChildren) = 2
    /\ Len(rootChildren[1].geometries) = 2
    /\ gltf.exists

-----------------------------------------------------------------------------
(* The material registry *)

\* the item of the resolve call being made, and its first appearance with a
\* colour of at least 4 components (0 if it has none)
ResolvedItem == mapEntities[1].items[nextEntity]

UsableAt(item) ==
    LET usable == {i \in 1..Len(item.m_vec_item_appearances) :
                      /\ item.m_vec_item_appearances[i] # NullPtr
                      /\ Len(item.m_vec_item_appearances[i].m_color_rgba) >= 4}
    IN  IF usable = {} THEN 0 ELSE CHOOSE i \in usable : \A j \in usable : i <= j

RegistrySize == Cardinality(DOMAIN m_materials)

\* C16: a resolve call for an item with an appearance colour of at least 4
\* components inserts exactly one new record, built from the first such
\* appearance and named Material_<n>, n = 1 + the registry size before the
\* call, and returns that name; the name is not yet a key of the registry
\* and every earlier entry is left as it was.
C16_NewMaterialPerCall ==
    [][ (pc = "resolve" /\ UsableAt(ResolvedItem) # 0) =>
           LET colour == ResolvedItem.m_vec_item_appearances[UsableAt(ResolvedItem)]
                             .m_color_rgba
               name == "Material_" \o ToString(RegistrySize + 1)
           IN  /\ geomData'.materialId = name
               /\ name \notin DOMAIN m_materials
               /\ DOMAIN m_materials' = DOMAIN m_materials \cup {name}
               /\ Cardinality(DOMAIN m_materials') = RegistrySize + 1
               /\ \A key \in DOMAIN m_materials : m_materials'[key] = m_materials[key]
               /\ m_materials'[name] =
                      [name |-> name,
                       baseColorFactor |-> <<colour[1], colour[2], colour[3], colour[4]>>,
                       metallicFactor |-> 0, roughnessFactor |-> 9]
      ]_vars

\* Material_1, the default record, then twice the same colour as Material_3
\* and Material_4
C16_Witness ==
    /\ pc = "resolve"
    /\ nextEntity = 5
    /\ DOMAIN m_materials = {"Material_1", "default", "Material_3", "Material_4"}
    /\ geomData.materialId = "Material_4"
    /\ m_materials["Material_3"].baseColorFactor = m_materials["Material_4"].baseColorFactor
    /\ m_materials["Material_1"].baseColorFactor = <<0, 0, 10, 5>>

\* C17: a resolve call for an item without a usable appearance returns
\* "default"; if the registry has no "default" key the record named "Default"
\* (0.8, 0.8, 0.8, 1.0), metallic 0.0, roughness 0.9 is inserted under it and
\* nothing else changes; otherwise the registry is left unchanged.
C17_DefaultMaterialOnce ==
    [][ (pc = "resolve" /\ UsableAt(ResolvedItem) = 0) =>
           /\ geomData'.materialId = "default"
           /\ "default" \in DOMAIN m_materials'
           /\ m_materials'["default"] =
                  [name |-> "Default", baseColorFactor |-> <<8, 8, 8, 10>>,
                   metallicFactor |-> 0, roughnessFactor |-> 9]
           /\ IF "default" \in DOMAIN m_materials
              THEN m_materials' = m_materials
              ELSE /\ DOMAIN m_materials' = DOMAIN m_materials \cup {"default"}
                   /\ \A key \in DOMAIN m_materials : m_materials'[key] = m_materials[key]
      ]_vars

\* the default path taken a second time, after a coloured item
C17_Witness ==
    /\ pc = "resolve"
    /\ nextEntity = 4
    /\ UsableAt(mapEntities[1].items[1]) = 0
    /\ UsableAt(mapEntities[1].items[2]) # 0
    /\ UsableAt(mapEntities[1].items[3]) = 0
    /\ geomData.materialId = "default"
    /\ DOMAIN m_materials = {"default", "Material_2"}

-----------------------------------------------------------------------------
(* Materials in the output *)

\* The scene with every appearance colour replaced by another one.
OtherColour == [m_color_rgba |-> <<1, 2, 3, 10>>]

RECURSIVE RecolourItem(_)
RecolourItem(item) ==
    [item EXCEPT
        !.m_vec_item_appearances =
            [i \in 1..Len(@) |-> IF @[i] = NullPtr THEN NullPtr ELSE OtherColour],
        !.m_child_items = [i \in 1..Len(@) |-> RecolourItem(@[i])]]

RECURSIVE Recolour(_)
Recolour(shapes) ==
    [k \in 1..Len(shapes) |->
        IF shapes[k] = NullPtr THEN NullPtr
        ELSE [shapes[k] EXCEPT !.items = [i \in 1..Len(@) |-> RecolourItem(@[i])],
                               !.children = Recolour(@)]]

\* The JSON text and the blob Convert() writes for a scene.
OutputOf(entities) ==
    LET children == NodesOf(entities, m_args.scale)
    IN  [text |-> IF m_args.outputGlb THEN WriteGltfJsonForGlb(children).text
                  ELSE WriteGltfJson(children, m_args.outputFile).text,
         blob |-> WriteBinaryData(GeometriesInOrder(children))]

\* C18: the materials array emitted has exactly one entry, with the Default
\* values, whatever the registry holds, and every primitive has material 0;
\* the scene with other appearance colours gives the same JSON text and the
\* same blob.
C18_SingleDefaultMaterial ==
    gltf.exists =>
        /\ Doc.materials = <<[name |-> "Default", baseColorFactor |-> <<8, 8, 8, 10>>,
                              metallicFactor |-> 0, roughnessFactor |-> 9]>>
        /\ \A m \in 1..Len(Doc.meshes) :
              \A i \in 1..Len(Doc.meshes[m].primitives) :
                  Doc.meshes[m].primitives[i].material = 0
        /\ gltf.text = OutputOf(Recolour(mapEntities)).text
        /\ BlobWritten => Blob = OutputOf(Recolour(mapEntities)).blob

\* two records of one node with different material ids, three registry entries
C18_Witness ==
    /\ gltf.exists
    /\ BlobWritten
    /\ Cardinality(DOMAIN m_materials) >= 3
    /\ \E k \in 1..Len(rootChildren) :
          \E i, j \in 1..Len(rootChildren[k].geometries) :
              /\ rootChildren[k].geometries[i].materialId = "default"
              /\ rootChildren[k].geometries[j].materialId \notin {"default", "Material_1"}
    /\ NodesOf(Recolour(mapEntities), m_args.scale) # rootChildren

-----------------------------------------------------------------------------
(* Scale *)

\* The record with every position coordinate (and so its bounds) times s.
ScaledRecord(rec, s) ==
    [rec EXCEPT !.vertices = [j \in 1..Len(@) |-> @[j] * s],
                !.minBounds = [j \in 1..3 |-> @[j] * s],
                !.maxBounds = [j \in 1..3 |-> @[j] * s]]

ScaledNodes(nodes, s) ==
    [k \in 1..Len(nodes) |->
        [nodes[k] EXCEPT !.geometries = [i \in 1..Len(@) |-> ScaledRecord(@[i], s)]]]

\* C19: converted at scale s, the scene has the nodes and records it has at
\* scale 1.0 with every position coordinate multiplied by s, once, and the
\* normals, the indices and the counts unchanged; so has the blob written,
\* and the accessors keep their counts.
C19_ScaleMultipliesPositions ==
    LET unscaled == NodesOf(mapEntities, 1)
        expected == ScaledNodes(unscaled, m_args.scale)
        document == WriteGltfJsonForGlb(unscaled).value
    IN  /\ ExtractionDone => rootChildren = expected
        /\ BlobWritten => Blob = WriteBinaryData(GeometriesInOrder(expected))
        /\ gltf.exists =>
              /\ Len(Doc.accessors) = Len(document.accessors)
              /\ \A a \in 1..Len(Doc.accessors) :
                    Doc.accessors[a].count = document.accessors[a].count

\* scale 2 on an object with a nested item and a child object, placed off the origin
C19_Witness ==
    /\ m_args.scale = 2
    /\ BlobWritten
    /\ mapEntities = <<ShapeNested>>
    /\ Len(rootChildren[1].geometries) = 3
    /\ rootChildren[1].geometries[3].maxBounds = <<2, 10, 10>>
    /\ rootChildren[1].geometries[3].normals[3] = -1

-----------------------------------------------------------------------------
(* Idempotence *)

\* C20: the same scene converted twice with the same configuration gives the
\* same JSON text and the same blob: the output of a Convert() call is that of
\* a conversion of the scene by a new converter object, and a second Convert()
\* on the same object that returns true leaves the text and the blob the
\* first one wrote.
C20_SameOutputTwice ==
    /\ (pc = "done" /\ result = "true") =>
          /\ gltf.text = OutputOf(mapEntities).text
          /\ BlobWritten => Blob = OutputOf(mapEntities).blob
    /\ (pc = "done" /\ result = "true" /\ previous # NoFile) =>
          \/ previous.result # "true"
          \/  /\ gltf.text = previous.gltf.text
              /\ (binFile.exists /\ previous.binFile.exists) =>
                      binFile.bytes = previous.binFile.bytes
              /\ m_args.outputGlb =>
                      /\ binaryData = previous.binaryData
                      /\ glbFile = previous.glbFile

-----------------------------------------------------------------------------
(* The buffer entry *)

IsSeparator(c) == c = "/" \/ c = "\\"

RECURSIVE LastSeparator(_, _)
LastSeparator(path, i) ==
    IF i = 0 THEN 0
    ELSE IF IsSeparator(path[i]) THEN i
    ELSE LastSeparator(path, i - 1)

\* the directory part of a path, with its last separator, and the rest
DirName(path) == SubSeq(path, 1, LastSeparator(path, Len(path)))
BaseName(path) == SubSeq(path, LastSeparator(path, Len(path)) + 1, Len(path))

RECURSIVE LastDot(_, _)
LastDot(name, i) ==
    IF i = 0 THEN 0
    ELSE IF name[i] = "." THEN i
    ELSE LastDot(name, i - 1)

\* a file name with its extension, if it has one, replaced by .bin
WithBinExtension(name) ==
    LET dot == LastDot(name, Len(name))
    IN  (IF dot = 0 THEN name ELSE SubSeq(name, 1, dot - 1)) \o <<".", "b", "i", "n">>

\* C21: in sidecar mode buffers has one entry, whose uri is the base name of
\* the output file with its extension replaced by .bin, without a path
\* separator, and the sidecar file written is the file of that name in the
\* directory of the .gltf file; in GLB mode the one entry has no uri; in both
\* modes byteLength is the number of bytes of the blob.
C21_BufferEntry ==
    (pc = "done" /\ result = "true") =>
        /\ Len(Doc.buffers) = 1
        /\ BlobWritten => Doc.buffers[1].byteLength = BlobLength
        /\ IF m_args.outputGlb
           THEN DOMAIN Doc.buffers[1] = {"byteLength"}
           ELSE LET name == WithBinExtension(BaseName(m_args.outputFile))
                IN  /\ DOMAIN Doc.buffers[1] = {"uri", "byteLength"}
                    /\ Doc.buffers[1].uri = PathText(name)
                    /\ \A i \in 1..Len(name) : ~IsSeparator(name[i])
                    /\ binFile.exists =>
                           binFile.name = DirName(m_args.outputFile) \o name

-----------------------------------------------------------------------------
(* Triangulation of a face *)

\* the faces of a mesh set in the order they are visited
FacesOf(meshset) ==
    IF meshset = NullPtr THEN <<>>
    ELSE LET meshes == SelectSeq(meshset.meshes, LAMBDA m : m # NullPtr)
         IN  SelectSeq(Flatten([m \in 1..Len(meshes) |-> meshes[m].faces]),
                       LAMBDA f : f # NullPtr)

\* the triangles of the fan of a face: corner positions, normal and texture
\* coordinate of its corners
Fan(face, T) ==
    LET n == Len(face.loop)
    IN  IF n < 3 THEN <<>>
        ELSE [i \in 1..(n - 2) |->
                 [corners |-> <<MatVec(T, face.loop[1]), MatVec(T, face.loop[i + 1]),
                                MatVec(T, face.loop[i + 2])>>,
                  normal |-> face.N, uv |-> <<0, 0>>]]

Fans(meshset, T) ==
    LET faces == FacesOf(meshset)
    IN  Flatten([f \in 1..Len(faces) |-> Fan(faces[f], T)])

\* the triangles a record holds from its vertex entry k on
TrianglesFrom(g, k) ==
    [t \in 1..((Len(g.vertices) \div 3 - k) \div 3) |->
        LET v == k + 3 * (t - 1)
        IN  [corners |-> [c \in 1..3 |-> SubSeq(g.vertices, 3 * (v + c - 1) + 1,
                                                3 * (v + c - 1) + 3)],
             normals |-> [c \in 1..3 |-> SubSeq(g.normals, 3 * (v + c - 1) + 1,
                                                3 * (v + c - 1) + 3)],
             uvs |-> [c \in 1..3 |-> SubSeq(g.texCoords, 2 * (v + c - 1) + 1,
                                            2 * (v + c - 1) + 2)]]]

\* C22: a call of ExtractMeshSet appends, for every face with n >= 3 vertices
\* in turn, the n-2 triangles (v0, vi, vi+1), i = 1 .. n-2, that is 3(n-2)
\* vertex entries, and nothing for a face with fewer vertices; every corner
\* of a triangle has the normal of its face and texture coordinate (0,0).
C22_FanTriangulation ==
    [][ExtractMeshSetCall =>
          LET fans == Fans(previous'.meshset, previous'.localTransform)
              before == Len(geomData.vertices) \div 3
              added == TrianglesFrom(geomData', before)
          IN  /\ SubSeq(geomData'.vertices, 1, 3 * before) = geomData.vertices
              /\ Len(geomData'.vertices) \div 3 = before + 3 * Len(fans)
              /\ Len(added) = Len(fans)
              /\ \A t \in 1..Len(fans) :
                    /\ added[t].corners = fans[t].corners
                    /\ \A c \in 1..3 : /\ added[t].normals[c] = fans[t].normal
                                        /\ added[t].uvs[c] = fans[t].uv]_vars

\* a face of four vertices, placed, appended to a record that holds a triangle
C22_Witness ==
    /\ pc = "meshset"
    /\ previous # NoFile
    /\ previous.meshset = MeshSetOf(<<GenFace(4)>>)
    /\ previous.localTransform = Placed
    /\ Len(geomData.vertices) = 27
    /\ SubSeq(geomData.vertices, 19, 27) = <<1, 2, 4>> \o <<-3, 4, 4>> \o <<-8, 5, 4>>

-----------------------------------------------------------------------------
(* The transform of merged geometry *)

\* the items of a list with their nested child items, an item before its child items
RECURSIVE ItemsPreOrder(_)
ItemsPreOrder(items) ==
    IF items = <<>> THEN <<>>
    ELSE <<Head(items)>> \o ItemsPreOrder(Head(items).m_child_items)
             \o ItemsPreOrder(Tail(items))

\* the items of the objects of a subtree, each with the transform of the
\* object that owns it, an object's items before those of its child objects
RECURSIVE OwnedItems(_)
OwnedItems(shapes) ==
    IF shapes = <<>> THEN <<>>
    ELSE LET shape == Head(shapes)
             own == ItemsPreOrder(shape.items)
         IN  [i \in 1..Len(own) |-> [item |-> own[i], T |-> shape.transform]]
                 \o OwnedItems(shape.children) \o OwnedItems(Tail(shapes))

\* the same items, all with one transform
WithTransform(owned, T) == [i \in 1..Len(owned) |-> [owned[i] EXCEPT !.T = T]]

\* the positions of the corners of the triangles of an item under T, scaled
PositionsOf(item, T, scale) ==
    LET meshsets == item.m_meshsets \o item.m_meshsets_open
        fans == Flatten([m \in 1..Len(meshsets) |-> Fans(meshsets[m], T)])
        corners == Flatten([t \in 1..Len(fans) |-> Flatten(fans[t].corners)])
    IN  [j \in 1..Len(corners) |-> corners[j] * scale]

NonEmptyPositions(owned) ==
    SelectSeq([i \in 1..Len(owned) |->
                  PositionsOf(owned[i].item, owned[i].T, m_args.scale)],
              LAMBDA v : v # <<>>)

IsLive(shapeData) == shapeData # NullPtr /\ ~shapeData.expired

\* the vertex arrays of the records held, in traversal order
VerticesHeld ==
    LET geoms == GeometriesInOrder(rootChildren)
    IN  [g \in 1..Len(geoms) |-> geoms[g].vertices]

\* the entities the loop of ExtractGeometryData has been through
Visited == SelectSeq(SubSeq(mapEntities, 1, nextEntity - 1), IsLive)

\* C23 as stated: every item merged into a node, those of descendant objects
\* included, has its vertices placed by the transform of the node's own
\* top-level object.
C23_TopLevelTransformOnly ==
    VerticesHeld =
        Flatten([k \in 1..Len(Visited) |->
                    NonEmptyPositions(WithTransform(OwnedItems(<<Visited[k]>>),
                                                    Visited[k].transform))])

\* C23 amended: every item merged into a node, with its nested child items,
\* has its vertices placed by the transform of the shape-data object that
\* owns it: the top-level object's for its own items, a descendant object's
\* own transform for the items of that descendant.
C23_OwnerTransform ==
    VerticesHeld =
        Flatten([k \in 1..Len(Visited) |-> NonEmptyPositions(OwnedItems(<<Visited[k]>>))])

\* an object at the origin with a placed child object: the child's quad is
\* merged into the node with the child's placement
C23_Witness ==
    /\ pc = "done"
    /\ result = "true"
    /\ mapEntities = <<ShapeNested>>
    /\ m_args.scale = 1
    /\ Len(rootChildren) = 1
    /\ LET geoms == rootChildren[1].geometries
       IN  /\ Len(geoms) = 3
           /\ SubSeq(geoms[3].vertices, 1, 6) = <<1, 2, 5>> \o <<1, 5, 5>>

-----------------------------------------------------------------------------
(* The geometry list of a node *)

\* the visited entities that have an item with a triangle in their subtree
KeptEntities == SelectSeq(Visited, LAMBDA e : ShapeItemsWithGeometry(e) > 0)

\* C24: a node is made for a top-level object only, and its geometry list has
\* one record for each item of the object's subtree (direct items, nested
\* child items, items of descendant objects at any depth) that has a
\* triangle, holding that item's triangles alone, in depth-first pre-order:
\* an object's items before its child objects, an item before its child items.
C24_SubtreeAggregated ==
    /\ Len(rootChildren) = Len(KeptEntities)
    /\ \A k \in 1..Len(rootChildren) :
          LET owned == SelectSeq(OwnedItems(<<KeptEntities[k]>>),
                                 LAMBDA o : ItemTriangles(o.item) > 0)
              geoms == rootChildren[k].geometries
          IN  /\ rootChildren[k].name = GetEntityName(KeptEntities[k].entity)
              /\ Len(geoms) = Len(owned)
              /\ \A i \in 1..Len(geoms) :
                    /\ Len(geoms[i].indices) = 3 * ItemTriangles(owned[i].item)
                    /\ geoms[i].vertices
                          = PositionsOf(owned[i].item, owned[i].T, m_args.scale)

\* a wall whose item has two triangles of its own, a child item without faces
\* and a child item with a quad, and whose child object has a quad: one node
\* of three records
C24_Witness ==
    /\ pc = "done"
    /\ mapEntities = <<ShapeEmpty, ShapeNested>>
    /\ Len(rootChildren) = 1
    /\ rootChildren[1].name = "Wall"
    /\ [i \in 1..3 |-> Len(rootChildren[1].geometries[i].vertices)] = <<18, 18, 18>>
    /\ Len(rootChildren[1].geometries) = 3
    /\ m_args.scale = 2
    /\ SubSeq(rootChildren[1].geometries[2].vertices, 1, 6) = <<0, 0, 4>> \o <<6, 0, 4>>

-----------------------------------------------------------------------------
(* Bounds *)

\* coordinate j of the vertices of a record
Coordinates(rec, j) == {rec.vertices[3 * (v - 1) + j] : v \in 1..(Len(rec.vertices) \div 3)}

Least(S) == CHOOSE x \in S : \A y \in S : x <= y
Greatest(S) == CHOOSE x \in S : \A y \in S : x >= y

\* C25: the min and max emitted in the position accessor of a record are, per
\* axis, the least and the greatest value of that coordinate over the
\* record's vertices after scaling: no vertex lies outside them and both are
\* attained; the single triangle (0,0,0),(1,0,0),(0,1,0) at scale 1.0 has
\* min [0,0,0] and max [1,1,0].
C25_BoundsEmitted ==
    gltf.exists =>
        LET geoms == GeometriesInOrder(rootChildren)
        IN  /\ \A g \in 1..Len(geoms) : \A j \in 1..3 :
                  /\ Doc.accessors[3 * g - 2].min[j] = Least(Coordinates(geoms[g], j))
                  /\ Doc.accessors[3 * g - 2].max[j] = Greatest(Coordinates(geoms[g], j))
            /\ (mapEntities = <<ShapeTri>> /\ m_args.scale = 1) =>
                  /\ Doc.accessors[1].min = <<0, 0, 0>>
                  /\ Doc.accessors[1].max = <<1, 1, 0>>

-----------------------------------------------------------------------------
(* Names in the JSON text *)

\* A reader of a JSON string (RFC 8259, section 7) from the character after
\* the opening quote: the value read, and whether the characters are one
\* well-formed string and nothing more.
RECURSIVE ReadJsonChars(_, _, _)
ReadJsonChars(text, i, acc) ==
    IF i > Len(text) THEN [wellFormed |-> FALSE, value |-> acc]
    ELSE IF text[i] = "\"" THEN [wellFormed |-> i = Len(text), value |-> acc]
    ELSE IF text[i] = "\n" THEN [wellFormed |-> FALSE, value |-> acc]
    ELSE IF text[i] # "\\" THEN ReadJsonChars(text, i + 1, Append(acc, text[i]))
    ELSE IF i = Len(text) THEN [wellFormed |-> FALSE, value |-> acc]
    ELSE IF text[i + 1] \in {"\"", "\\", "/"}
         THEN ReadJsonChars(text, i + 2, Append(acc, text[i + 1]))
    ELSE IF text[i + 1] = "n" THEN ReadJsonChars(text, i + 2, Append(acc, "\n"))
    ELSE [wellFormed |-> FALSE, value |-> acc]

ReadJsonString(text) ==
    IF text = <<>> \/ text[1] # "\"" THEN [wellFormed |-> FALSE, value |-> <<>>]
    ELSE ReadJsonChars(text, 2, <<>>)

\* C26: whatever characters a node name or an output file name holds, a
\* double quote, a backslash or a control character included, the string
\* written for it is well-formed JSON and a reader gets the name back: the
\* node name in nodes[i].name, the name followed by _Mesh in meshes[i].name,
\* the .bin file name in buffers[0].uri.
C26_NamesRoundTrip ==
    previous # NoFile =>
        LET read == ReadJsonString(previous.written)
        IN  /\ read.wellFormed
            /\ read.value = previous.name

-----------------------------------------------------------------------------
(* The registry and the items visited *)

\* the items of the entities visited so far, nested child items and the items
\* of descendant objects included
VisitedItems ==
    LET owned == OwnedItems(Visited)
    IN  [i \in 1..Len(owned) |-> owned[i].item]

\* C27: the registry is updated once for every item visited, whether or not
\* the item gets a record: every retained record's materialId is a key of the
\* registry, and the registry has one entry for each visited item with a
\* usable appearance, nested child items and items of objects that become no
\* node included, plus one if a visited item had no usable appearance.
C27_RegistryPerVisitedItem ==
    LET geoms == GeometriesInOrder(rootChildren)
        coloured == {i \in 1..Len(VisitedItems) : UsableAt(VisitedItems[i]) # 0}
        plain == {i \in 1..Len(VisitedItems) : UsableAt(VisitedItems[i]) = 0}
    IN  /\ \A g \in 1..Len(geoms) : geoms[g].materialId \in DOMAIN m_materials
        /\ RegistrySize = Cardinality(coloured) + (IF plain # {} THEN 1 ELSE 0)

\* an object without a triangle, whose item has no usable appearance, comes
\* first and becomes no node: the registry has the default entry from it, and
\* the wall's own item, fifth item visited, gets the second entry
C27_Witness ==
    /\ pc = "done"
    /\ mapEntities = <<ShapeEmpty, ShapeNested>>
    /\ Len(VisitedItems) = 5
    /\ DOMAIN m_materials = {"default", "Material_2"}
    /\ Len(rootChildren) = 1
    /\ [i \in 1..3 |-> rootChildren[1].geometries[i].materialId]
          = <<"Material_2", "default", "default">>

=============================================================================
